---- MODULE Spec2Model ----
(***************************************************************************)
(* Model of the WCO PDF download script (HTTP variant, download-wco-pdfs): *)
(* parseChapters, the naming of the documents, downloadFile with its       *)
(* redirect / retry callbacks, checkFileChanged, and the two loops of main *)
(* (additional PDFs, then the chapter x heading grid) with the resume      *)
(* point detection, the politeness delays and the statistics.              *)
(*                                                                         *)
(* Strings are sequences of character codes (UTF-16 code units), so that   *)
(* Array.prototype.sort, String.prototype.split, endsWith and the resume   *)
(* regular expression are computed the way the runtime computes them.      *)
(***************************************************************************)
EXTENDS Integers, Sequences, FiniteSets, Bags

(***************************************************************************)
(* Bounds of the model.                                                    *)
(***************************************************************************)
\* headings tried per chapter (the program tries 01..99)
MaxHeading == 2
\* number of origin responses in one run that deviate from the nominal
\* answer (200 with the PDF, HEAD with the PDF's Content-Length)
MaxFaults == 1

(***************************************************************************)
(* Program constants.                                                      *)
(***************************************************************************)
\* downloadFile(..., maxRedirects = 5), checkFileChanged(..., maxRedirects = 5)
MaxRedirects == 5
\* "Only delete if file is empty or very small": stats.size < 100
StubThreshold == 100
\* setTimeout(..., 1000 * attempt)
BackoffMs == 1000

(***************************************************************************)
(* Character codes and strings.                                            *)
(***************************************************************************)
Digit(d) == 48 + d
IsDigit(ch) == ch >= 48 /\ ch <= 57
Comma == 44
Hyphen == 45
\* "_"
Underscore == 95
\* "e.pdf"
Str_e_pdf == <<101, 46, 112, 100, 102>>
\* ".pdf"
Str_pdf == <<46, 112, 100, 102>>
\* "introduction_"
Str_introduction == <<105, 110, 116, 114, 111, 100, 117, 99, 116, 105, 111, 110, 95>>
\* the placeholder {EDITION} of a template is kept as one symbol
EditionPlaceholder == 0

\* Number(s) of a string that is not a numeral
NaN == 0 - 1

\* String(n).padStart(2, '0') for 0 <= n <= 99
PadStart2(n) == <<Digit(n \div 10), Digit(n % 10)>>

\* parseInt(s, 10) of a string of digits
RECURSIVE ParseDigits(_)
ParseDigits(s) ==
  IF s = <<>> THEN 0
  ELSE 10 * ParseDigits(SubSeq(s, 1, Len(s) - 1)) + (s[Len(s)] - 48)

\* Number(s): the empty string is 0, a numeral its value, anything else NaN
ToNumber(s) ==
  IF s = <<>> THEN 0
  ELSE IF \A k \in 1..Len(s) : IsDigit(s[k]) THEN ParseDigits(s)
  ELSE NaN

Includes(s, ch) == \E k \in 1..Len(s) : s[k] = ch

\* s.split(ch)
RECURSIVE Split(_, _)
Split(s, ch) ==
  IF ~Includes(s, ch) THEN <<s>>
  ELSE LET k == CHOOSE j \in 1..Len(s) : s[j] = ch /\ \A m \in 1..(j - 1) : s[m] # ch
       IN <<SubSeq(s, 1, k - 1)>> \o Split(SubSeq(s, k + 1, Len(s)), ch)

\* s.endsWith(suffix)
EndsWith(s, suffix) ==
  /\ Len(s) >= Len(suffix)
  /\ SubSeq(s, Len(s) - Len(suffix) + 1, Len(s)) = suffix

\* a < b in the order of Array.prototype.sort() without a comparator:
\* by code units, a proper prefix first
StrLess(a, b) ==
  \/ /\ Len(a) < Len(b)
     /\ SubSeq(b, 1, Len(a)) = a
  \/ \E k \in 1..Len(a) :
        /\ k <= Len(b)
        /\ SubSeq(a, 1, k - 1) = SubSeq(b, 1, k - 1)
        /\ a[k] < b[k]

\* template.replace('{EDITION}', edition) without the g flag: only the first
\* occurrence is replaced
ReplaceEdition_FirstOnly(template, edition) ==
  IF ~Includes(template, EditionPlaceholder) THEN template
  ELSE LET k == CHOOSE j \in 1..Len(template) :
                  /\ template[j] = EditionPlaceholder
                  /\ \A m \in 1..(j - 1) : template[m] # EditionPlaceholder
       IN SubSeq(template, 1, k - 1) \o edition \o SubSeq(template, k + 1, Len(template))

\* template.replace(/{EDITION}/g, edition)
RECURSIVE ReplaceEdition(_, _)
ReplaceEdition(template, edition) ==
  IF template = <<>> THEN <<>>
  ELSE (IF Head(template) = EditionPlaceholder THEN edition ELSE <<Head(template)>>)
       \o ReplaceEdition(Tail(template), edition)

(***************************************************************************)
(* Configuration (parseArgs) and the item space.                           *)
(***************************************************************************)
\* "2022"
DEFAULT_EDITION == <<50, 48, 50, 50>>

\* DEFAULT_ADDITIONAL_PDFS: 'introduction_{EDITION}e.pdf'
DEFAULT_ADDITIONAL_PDFS ==
  << Str_introduction \o <<EditionPlaceholder>> \o Str_e_pdf >>

\* parseChapters(chapterStr)
parseChapters(chapterStr) ==
  IF Includes(chapterStr, Hyphen) THEN
    LET parts == Split(chapterStr, Hyphen)
        start == ToNumber(parts[1])
        end   == ToNumber(parts[2])
        \* Array.from({ length: end - start + 1 }): NaN or a negative length is 0
        n     == IF start = NaN \/ end = NaN \/ end - start + 1 < 0
                 THEN 0 ELSE end - start + 1
    IN [i \in 1..n |-> start + (i - 1)]
  ELSE IF Includes(chapterStr, Comma) THEN
    LET parts == Split(chapterStr, Comma)
    IN [i \in 1..Len(parts) |-> ToNumber(parts[i])]
  ELSE <<ToNumber(chapterStr)>>

\* generateHeadings(chapter): the heading numbers 1..99 (bounded by MaxHeading)
generateHeadings(chapter) == [h \in 1..MaxHeading |-> h]

\* An item is <<0, k>> for the k-th additional PDF (main records them with
\* chapter 0) and <<chapter, heading>> for a chapter/heading PDF.
AdditionalItems == {<<0, k>> : k \in 1..Len(DEFAULT_ADDITIONAL_PDFS)}
IsAdditional(item) == item[1] = 0
NoItem == <<0, 0>>

\* the --chapters values of the model: "1-2" and "2,1"
ChapterArgs == { <<49, 45, 50>>, <<50, 44, 49>> }

ChapterUniverse == UNION { {parseChapters(a)[i] : i \in 1..Len(parseChapters(a))} : a \in ChapterArgs }
GridItems == ChapterUniverse \X (1..MaxHeading)
Items == AdditionalItems \cup GridItems

\* the filename when chapter and heading are written without padStart
Filename_Unpadded(edition, item) ==
  IF IsAdditional(item)
  THEN ReplaceEdition(DEFAULT_ADDITIONAL_PDFS[item[2]], edition)
  ELSE LET Dec(n) == IF n < 10 THEN <<Digit(n)>> ELSE PadStart2(n)
       IN Dec(item[1]) \o Dec(item[2]) \o <<Underscore>> \o edition \o Str_e_pdf

\* main: the filename of an additional PDF and of a chapter/heading PDF
Filename(edition, item) ==
  IF IsAdditional(item)
  THEN ReplaceEdition(DEFAULT_ADDITIONAL_PDFS[item[2]], edition)
  ELSE PadStart2(item[1]) \o PadStart2(item[2]) \o <<Underscore>> \o edition \o Str_e_pdf

\* the placeholders {CHAPTER} and {HEADING} of BASE_URL, each kept as one symbol
ChapterPlaceholder == 1
HeadingPlaceholder == 2
\* "/"
Slash == 47

\* BASE_URL: 'https://www.wcoomd.org/-/media/wco/public/global/pdf/topics/
\* nomenclature/instruments-and-tools/hs-nomenclature-{EDITION}/{EDITION}/
\* {CHAPTER}{HEADING}_{EDITION}e.pdf'
BASE_URL ==
  << 104, 116, 116, 112, 115, 58, 47, 47, 119, 119, 119, 46, 119, 99, 111,
     111, 109, 100, 46, 111, 114, 103, 47, 45, 47, 109, 101, 100, 105, 97,
     47, 119, 99, 111, 47, 112, 117, 98, 108, 105, 99, 47, 103, 108, 111, 98,
     97, 108, 47, 112, 100, 102, 47, 116, 111, 112, 105, 99, 115, 47, 110,
     111, 109, 101, 110, 99, 108, 97, 116, 117, 114, 101, 47, 105, 110, 115,
     116, 114, 117, 109, 101, 110, 116, 115, 45, 97, 110, 100, 45, 116, 111,
     111, 108, 115, 47, 104, 115, 45, 110, 111, 109, 101, 110, 99, 108, 97,
     116, 117, 114, 101, 45, EditionPlaceholder, 47, EditionPlaceholder, 47,
     ChapterPlaceholder, HeadingPlaceholder, 95, EditionPlaceholder, 101, 46,
     112, 100, 102 >>

\* s.replace(/{X}/g, v): every occurrence of the placeholder is replaced
\* (the string is halved at each step, which keeps the evaluation shallow)
RECURSIVE ReplaceAll(_, _, _)
ReplaceAll(s, placeholder, v) ==
  IF s = <<>> THEN <<>>
  ELSE IF Len(s) = 1 THEN (IF s[1] = placeholder THEN v ELSE s)
  ELSE LET half == Len(s) \div 2
       IN ReplaceAll(SubSeq(s, 1, half), placeholder, v)
          \o ReplaceAll(SubSeq(s, half + 1, Len(s)), placeholder, v)

\* buildUrl(edition, chapter, heading); heading is the two-character string
\* generateHeadings made
buildUrl(edition, chapter, heading) ==
  ReplaceAll(
    ReplaceAll(
      ReplaceAll(BASE_URL, EditionPlaceholder, edition),
      ChapterPlaceholder, PadStart2(chapter)),
    HeadingPlaceholder, heading)

\* the order in which main walks the items: the additional PDFs, then for
\* each chapter of the list, in the order of the list, the headings
GridSeq(chapters) ==
  [k \in 1..(Len(chapters) * MaxHeading) |->
     <<chapters[((k - 1) \div MaxHeading) + 1],
       generateHeadings(chapters[((k - 1) \div MaxHeading) + 1])[((k - 1) % MaxHeading) + 1]>>]
AdditionalSeq == [k \in 1..Len(DEFAULT_ADDITIONAL_PDFS) |-> <<0, k>>]
ItemSeq(chapterStr) == AdditionalSeq \o GridSeq(parseChapters(chapterStr))

(***************************************************************************)
(* Files of the output directory and answers of the origin.                *)
(***************************************************************************)
NoFile == [exists |-> FALSE, size |-> 0, magic |-> FALSE]
\* what createWriteStream(outputPath) leaves: the file created or truncated
EmptyFile == [exists |-> TRUE, size |-> 0, magic |-> FALSE]

NoBody == [size |-> 0, magic |-> FALSE]
\* the document as the origin serves it: 200 bytes that begin with %PDF
PdfBody == [size |-> 200, magic |-> TRUE]
\* a 200 answer whose body is an HTML page
HtmlBody == [size |-> 50, magic |-> FALSE]
Bodies == {PdfBody, HtmlBody}
FileOf(b) == [exists |-> TRUE, size |-> b.size, magic |-> b.magic]
\* the bytes on disk when the connection is reset in the middle of a body
PartialSizes == {0, 150}
PartialOf(b, p) == [exists |-> TRUE, size |-> p, magic |-> b.magic /\ p >= 4]

FileStates ==
  {NoFile, EmptyFile} \cup {FileOf(b) : b \in Bodies}
  \cup {PartialOf(b, p) : b \in Bodies, p \in PartialSizes}

\* answers to a GET: status, kind of Location header, body
Resp(status, location, body) == [status |-> status, location |-> location, body |-> body]
GetResponses ==
  {Resp(200, "none", b) : b \in Bodies}
  \cup {Resp(s, "none", NoBody) : s \in {403, 404, 429, 500}}
  \cup {Resp(302, l, NoBody) : l \in {"none", "error", "ok"}}
\* answers to a HEAD: status, Location, Content-Length header (present or not)
HeadResp(status, location, hasLength, length) ==
  [status |-> status, location |-> location, hasLength |-> hasLength, length |-> length]
HeadResponses ==
  {HeadResp(200, "none", TRUE, n) : n \in {PdfBody.size, 150}}
  \cup {HeadResp(200, "none", FALSE, 0)}
  \cup {HeadResp(s, "none", FALSE, 0) : s \in {404, 500}}
  \cup {HeadResp(302, l, FALSE, 0) : l \in {"none", "ok"}}

NominalGet == Resp(200, "none", PdfBody)
NominalHead == HeadResp(200, "none", TRUE, PdfBody.size)

\* statusCode === 301 || 302 || 303 || 307 || 308
IsRedirect(status) == status \in {301, 302, 303, 307, 308}

(***************************************************************************)
(* downloadFile: one chain of attemptDownload calls.                       *)
(***************************************************************************)
\* status of a DownloadResult that is a rejection (reject(error))
Thrown == 0 - 1
NoRes == [settled |-> FALSE, success |-> FALSE, status |-> 0]
Resolved(success, status) == [settled |-> TRUE, success |-> success, status |-> status]
Rejected == [settled |-> TRUE, success |-> FALSE, status |-> Thrown]

\* a chain: the arguments of the attemptDownload call that is pending, what
\* it waits for (phase), the body being piped, and the delay of its retry timer
IdleChain == [item |-> NoItem, attempt |-> 0, redirectCount |-> 0, phase |-> "idle",
              body |-> NoBody, wait |-> 0]
NewChain(item) == [item |-> item, attempt |-> 1, redirectCount |-> 0, phase |-> "idle",
                   body |-> NoBody, wait |-> 0]

\* the result of running one callback of a chain: the chain afterwards, the
\* file at outputPath, the settlement of the promise (if any), whether the
\* request that was in flight is over, whether a new request was issued,
\* and whether an exception escaped the callback
Out(c, f, res, over, issued, crash) ==
  [c |-> c, f |-> f, res |-> res, over |-> over, issued |-> issued, crash |-> crash]

\* "Only delete if file is empty or very small"
DeleteIfSmall(f) ==
  IF f.exists /\ (f.size = 0 \/ f.size < StubThreshold) THEN NoFile ELSE f

\* attemptDownload(attempt, currentUrl, redirectCount, previousUrl) up to
\* protocol.get: the redirect limit, then createWriteStream and the request
attemptDownload(c, f, over) ==
  IF c.redirectCount >= MaxRedirects
  THEN Out(IdleChain, f, Resolved(FALSE, 0), over, FALSE, FALSE)
  ELSE Out([c EXCEPT !.phase = "req", !.body = NoBody, !.wait = 0], EmptyFile, NoRes, over, TRUE, FALSE)

\* the response callback of protocol.get
onResponse(c, f, r, retries) ==
  IF IsRedirect(r.status) THEN
    IF r.location = "none" THEN
      Out(IdleChain, NoFile, Resolved(FALSE, r.status), TRUE, FALSE, FALSE)
    ELSE IF r.location = "error" THEN
      Out(IdleChain, DeleteIfSmall(f), Resolved(FALSE, 404), TRUE, FALSE, FALSE)
    ELSE attemptDownload([c EXCEPT !.redirectCount = @ + 1], f, TRUE)
  ELSE IF r.status = 404 THEN
    Out(IdleChain, DeleteIfSmall(f), Resolved(FALSE, 404), TRUE, FALSE, FALSE)
  ELSE IF r.status # 200 THEN
    LET f2 == IF r.status >= 500 /\ c.attempt >= retries THEN DeleteIfSmall(f) ELSE f
    IN IF c.attempt < retries
       THEN Out([c EXCEPT !.phase = "timer", !.wait = BackoffMs * c.attempt],
                f2, NoRes, TRUE, FALSE, FALSE)
       ELSE Out(IdleChain, f2, Resolved(FALSE, r.status), TRUE, FALSE, FALSE)
  ELSE Out([c EXCEPT !.phase = "body", !.body = r.body], f, NoRes, FALSE, FALSE, FALSE)

\* the 'error' handler of the request, before any response
onError(c, f, retries) ==
  LET f2 == IF c.attempt >= retries THEN DeleteIfSmall(f) ELSE f
  IN IF c.attempt < retries
     THEN Out([c EXCEPT !.phase = "timer", !.wait = BackoffMs * c.attempt],
              f2, NoRes, TRUE, FALSE, FALSE)
     ELSE Out(IdleChain, f2, Rejected, TRUE, FALSE, FALSE)

\* the 'error' handler when the connection is reset while the body of a 200
\* is piped, p bytes being on disk: file.close() ends the write stream, so
\* its 'finish' handler runs after the error handler and calls
\* statSync(outputPath), which throws when the handler deleted the file
onReset(c, p, retries) ==
  LET fp == PartialOf(c.body, p)
      f2 == IF c.attempt >= retries THEN DeleteIfSmall(fp) ELSE fp
  IN IF c.attempt < retries
     THEN Out([c EXCEPT !.phase = "timer", !.body = NoBody, !.wait = BackoffMs * c.attempt],
              f2, Resolved(TRUE, 200), TRUE, FALSE, FALSE)
     ELSE Out(IdleChain, f2, Rejected, TRUE, FALSE, ~f2.exists)

\* file.on('finish') after the whole body was piped
onFinish(c) ==
  Out(IdleChain, FileOf(c.body), Resolved(TRUE, 200), TRUE, FALSE, FALSE)

\* the retry timer: attemptDownload(attempt + 1, currentUrl, redirectCount, previousUrl)
onTimer(c, f) == attemptDownload([c EXCEPT !.attempt = @ + 1], f, FALSE)

(***************************************************************************)
(* The state of one run of the script.                                     *)
(***************************************************************************)
VARIABLES
  cfg,          \* the Config parseArgs returned
  fs,           \* the output directory: the file of each item
  pc,           \* where main is: Idle, WarmingUp, Item, Head, Get, Resume,
                \* Finalizing, Completed, Aborted (process.exit(1)), Crashed
  pos,          \* index in ItemSeq of the item main is at
  resumeFrom,   \* the ResumePoint
  tot,          \* totalAttempted, totalDownloaded, totalFailed, totalSkipped
  dl,           \* the downloadFile chain main awaits
  strays,       \* chains of downloadFile calls whose promise is settled
                \* while a retry timer of theirs is still pending
  hd,           \* redirectCount of the checkFile call main awaits
  inflight,     \* requests to the origin issued and not yet over
  faults,       \* deviating origin answers so far
  last,         \* the DownloadResult main received last, and for which item
  lastReq,      \* the request issued last
  lastHead,     \* the answer to a HEAD received last
  net,          \* the last two network-issuing steps of main and the time
                \* main slept between them, and since the later one
  firstGridReq, \* the first grid item main issued a request for
  skippedItems, \* the items counted as skipped because the file exists
  exitCode,     \* the exit code of the process, once it has one
  lastGet,      \* the answer to a GET the call main awaits received last
  dir0,         \* the output directory as the run found it
  outputDirMade,\* whether main called fs.mkdir(outputDir)
  report,       \* the summary main printed, if it did
  aux,          \* inputs and results of the functions applied on their own
  br,           \* the state of one run of the browser-based script
  refererUrl    \* main's refererUrl, once it is assigned

vars == <<cfg, fs, pc, pos, resumeFrom, tot, dl, strays, hd, inflight, faults,
          last, lastReq, lastHead, net, firstGridReq, skippedItems, exitCode,
          lastGet, dir0, outputDirMade, report, aux, br, refererUrl>>

\* the variables of the HTTP script
mainVars == <<cfg, fs, pc, pos, resumeFrom, tot, dl, strays, hd, inflight, faults,
              last, lastReq, lastHead, net, firstGridReq, skippedItems, exitCode,
              lastGet, dir0, outputDirMade, report, refererUrl>>

NoResume == [set |-> FALSE, chapter |-> 0, heading |-> 0]
NoReq == [method |-> "none", item |-> NoItem, attempt |-> 0, redirect |-> 0, by |-> "none"]
NoLast == [item |-> NoItem, success |-> FALSE, status |-> 0]
NoExit == 0 - 1
NoHead == HeadResp(0, "none", FALSE, 0)
NoGet == Resp(0, "none", NoBody)
NoReport == [printed |-> FALSE, attempted |-> 0, downloaded |-> 0, failed |-> 0, skipped |-> 0]
NoAux == [op |-> "none"]
NoBrowser == [pc |-> "none"]

\* parseArgs, the case of one existing-file flag handled as if every such
\* flag set checkExisting only: --skip-existing leaves checkExisting as it is
ExistingFlag_NoReset(config, arg) ==
  IF arg = "--check-existing" THEN [config EXCEPT !.checkExisting = TRUE]
  ELSE IF arg \in {"--no-check-existing", "--force"}
       THEN [config EXCEPT !.checkExisting = FALSE]
  ELSE IF arg = "--skip-existing" THEN [config EXCEPT !.skipExisting = TRUE]
  ELSE config

\* parseArgs: the switch cases --check-existing, --no-check-existing /
\* --force and --skip-existing
ExistingFlag(config, arg) ==
  IF arg = "--check-existing"
  THEN [config EXCEPT !.checkExisting = TRUE, !.skipExisting = FALSE]
  ELSE IF arg \in {"--no-check-existing", "--force"}
  THEN [config EXCEPT !.checkExisting = FALSE, !.skipExisting = FALSE]
  ELSE IF arg = "--skip-existing"
  THEN [config EXCEPT !.skipExisting = TRUE, !.checkExisting = FALSE]
  ELSE config

\* parseArgs: the loop over the arguments, from the defaults
\* (checkExisting true, skipExisting false)
RECURSIVE parseExisting(_)
parseExisting(args) ==
  IF args = <<>> THEN [checkExisting |-> TRUE, skipExisting |-> FALSE]
  ELSE ExistingFlag(parseExisting(SubSeq(args, 1, Len(args) - 1)), args[Len(args)])

\* the existing-file flags of the command lines of the model, in the order
\* given: none, two and three of them
ExistingArgs ==
  { <<>>,
    <<"--skip-existing", "--force">>,
    <<"--no-check-existing", "--check-existing", "--skip-existing">> }

\* the three settings of (checkExisting, skipExisting) parseArgs can return
ExistingModes == { parseExisting(a) : a \in ExistingArgs }
\* values of --delay, --delay-variation and --retries of the model (even
\* delays, so that delay / 2 is an integer)
DelayArgs == {0, 4}
VariationArgs == {2}
RetryArgs == {1, 2}

Configs ==
  { [edition |-> DEFAULT_EDITION, chapters |-> ch, delay |-> d, delayVariation |-> v,
     retries |-> r, resume |-> res, dryRun |-> dry, existingArgs |-> a,
     checkExisting |-> parseExisting(a).checkExisting,
     skipExisting |-> parseExisting(a).skipExisting] :
    ch \in ChapterArgs, d \in DelayArgs, v \in VariationArgs, r \in RetryArgs,
    res \in BOOLEAN, dry \in BOOLEAN, a \in ExistingArgs }

\* output directories a run can start from, with the files an earlier run
\* left: complete PDFs of a set of items, and the zero-byte file of a fetch
\* that failed
DirOf(S) == [i \in Items |-> IF i \in S THEN FileOf(PdfBody) ELSE NoFile]
StubDir == [DirOf(Items) EXCEPT ![<<2, MaxHeading>>] = EmptyFile]
InitDirs ==
  { DirOf({}), StubDir, DirOf({<<0, 1>>, <<1, 1>>}) }

Init ==
  /\ cfg \in Configs
  /\ fs \in InitDirs
  /\ pc = "Idle"
  /\ pos = 1
  /\ resumeFrom = NoResume
  /\ tot = [attempted |-> 0, downloaded |-> 0, failed |-> 0, skipped |-> 0]
  /\ dl = IdleChain
  /\ strays = {}
  /\ hd = 0
  /\ inflight = 0
  /\ faults = 0
  /\ last = NoLast
  /\ lastReq = NoReq
  /\ lastHead = NoHead
  /\ net = [prev |-> "none", cur |-> "none", gap |-> 0, acc |-> 0]
  /\ firstGridReq = NoItem
  /\ skippedItems = {}
  /\ exitCode = NoExit
  /\ lastGet = NoGet
  /\ dir0 = fs
  /\ outputDirMade = FALSE
  /\ report = NoReport
  /\ refererUrl = <<>>
  /\ aux = NoAux
  /\ br = NoBrowser

\* the items main walks through, for each --chapters value of Configs
WalkOf == [a \in ChapterArgs |-> ItemSeq(a)]
Walk == WalkOf[cfg.chapters]
NumAdditional == Len(AdditionalSeq)
Cur == Walk[pos]

\* where main goes when it moves to position p of the walk
AfterItem(p) ==
  IF p = NumAdditional + 1 THEN "Resume"
  ELSE IF p > Len(Walk) THEN "Finalizing"
  ELSE "Item"

\* getRandomDelay(baseDelay, variation): baseDelay + floor(random * variation)
getRandomDelay(baseDelay, variation) ==
  {baseDelay + k : k \in 0..(IF variation > 0 THEN variation - 1 ELSE 0)}

Alive == pc \notin {"Aborted", "Crashed"}

\* a request is issued: what the ghost variables record
ReqOf(method, c, by) ==
  [method |-> method, item |-> c.item, attempt |-> c.attempt, redirect |-> c.redirectCount, by |-> by]
\* main starts a network-issuing step (a HEAD check or a downloadFile call)
\* after having slept d more
NetStep(kind, d) ==
  net' = [prev |-> net.cur, cur |-> kind, gap |-> net.acc + d, acc |-> 0]
FirstGrid(item) ==
  firstGridReq' = IF firstGridReq = NoItem /\ ~IsAdditional(item) THEN item ELSE firstGridReq

(***************************************************************************)
(* main up to the first item: mkdir and establishSession.                  *)
(***************************************************************************)
\* establishSession: the main page URL for the edition,
\* `https://www.wcoomd.org/en/topics/nomenclature/instrument-and-tools/hs-nomenclature-${edition}-edition/hs-nomenclature-${edition}-edition.aspx`
mainPageUrl(edition) ==
  <<104, 116, 116, 112, 115, 58, 47, 47, 119, 119, 119, 46, 119, 99, 111, 111,
     109, 100, 46, 111, 114, 103, 47, 101, 110, 47, 116, 111, 112, 105, 99, 115,
     47, 110, 111, 109, 101, 110, 99, 108, 97, 116, 117, 114, 101, 47, 105, 110,
     115, 116, 114, 117, 109, 101, 110, 116, 45, 97, 110, 100, 45, 116, 111, 111,
     108, 115, 47, 104, 115, 45, 110, 111, 109, 101, 110, 99, 108, 97, 116, 117,
     114, 101, 45 >>
  \o edition \o
  <<45, 101, 100, 105, 116, 105, 111, 110, 47, 104, 115, 45, 110, 111, 109, 101,
     110, 99, 108, 97, 116, 117, 114, 101, 45 >>
  \o edition \o
  <<45, 101, 100, 105, 116, 105, 111, 110, 46, 97, 115, 112, 120 >>

\* establishSession rejecting on a request error and on the timeout
establishSession_RejectOnError(edition, how) ==
  [resolved |-> how = "end", url |-> mainPageUrl(edition)]

\* establishSession(edition): how its promise settles when the request ends
\* by the end of the response, by a request error, or by the 10 s timeout
\* (req.destroy()): resolve(mainPageUrl) in the three handlers, and no reject
establishSession(edition, how) ==
  [resolved |-> TRUE, url |-> mainPageUrl(edition)]

\* main without the two "if (!config.dryRun)" guards: the directory is made
\* and the session is established in every run
Start_NoDryRunGuard ==
  /\ pc = "Idle"
  /\ pc' = "WarmingUp"
  /\ inflight' = inflight + 1
  /\ lastReq' = [NoReq EXCEPT !.method = "WARMUP", !.by = "main"]
  /\ net' = [net EXCEPT !.cur = "WARMUP"]
  /\ outputDirMade' = TRUE
  /\ refererUrl' = mainPageUrl(cfg.edition)
  /\ UNCHANGED <<cfg, dir0, aux, br, report, lastGet,
                 fs, pos, resumeFrom, tot, dl, strays, hd, faults, last,
                 lastHead, firstGridReq, skippedItems, exitCode>>

\* main: mkdir, then the warm-up request unless --dry-run
Start ==
  /\ pc = "Idle"
  /\ IF cfg.dryRun
     THEN /\ pc' = AfterItem(1)
          /\ UNCHANGED <<inflight, lastReq, net>>
     ELSE /\ pc' = "WarmingUp"
          /\ inflight' = inflight + 1
          /\ lastReq' = [NoReq EXCEPT !.method = "WARMUP", !.by = "main"]
          /\ net' = [net EXCEPT !.cur = "WARMUP"]
  \* if (!config.dryRun) await fs.mkdir(config.outputDir, { recursive: true })
  /\ outputDirMade' = ~cfg.dryRun
  \* let refererUrl = `https://www.wcoomd.org/.../hs-nomenclature-${config.edition}-edition.aspx`
  /\ refererUrl' = mainPageUrl(cfg.edition)
  /\ UNCHANGED <<cfg, dir0, aux, br, report, lastGet,
                 fs, pos, resumeFrom, tot, dl, strays, hd, faults, last,
                 lastHead, firstGridReq, skippedItems, exitCode>>

\* refererUrl = await establishSession(config.edition, config.verbose): the
\* promise settles on the end of the response, on a request error, or on its
\* 10 s timeout; a rejection would leave main by main().catch, process.exit(1)
SessionDone ==
  /\ pc = "WarmingUp"
  /\ \E how \in {"end", "error", "timeout"} :
       LET s == establishSession(cfg.edition, how)
       IN /\ inflight' = inflight - 1
          /\ IF s.resolved
             THEN /\ pc' = AfterItem(1)
                  /\ refererUrl' = s.url
                  /\ UNCHANGED exitCode
             ELSE /\ pc' = "Aborted"
                  /\ exitCode' = 1
                  /\ UNCHANGED refererUrl
  /\ UNCHANGED <<cfg, dir0, aux, br, outputDirMade, report, lastGet,
                 fs, pos, resumeFrom, tot, dl, strays, hd, faults, last,
                 lastReq, lastHead, net, firstGridReq, skippedItems>>

(***************************************************************************)
(* main: what follows the settlement of downloadFile, and the loop head.   *)
(***************************************************************************)
\* the delay main sleeps after a download
AfterDownloadDelays ==
  IF cfg.delay > 0 THEN getRandomDelay(cfg.delay, cfg.delayVariation) ELSE {0}
\* the delay main sleeps before a HEAD check
BeforeHeadDelays ==
  IF cfg.delay > 0 THEN getRandomDelay(cfg.delay \div 2, cfg.delayVariation \div 2) ELSE {0}

\* "continue": main moves to the next item
Continue ==
  /\ pos' = pos + 1
  /\ pc' = AfterItem(pos + 1)

\* MainOnResult with the 404 branch taken as any other failure
MainOnResult_404AsFailure(item, res) ==
  /\ last' = [item |-> item, success |-> res.success, status |-> res.status]
  /\ tot' = IF res.success
            THEN [tot EXCEPT !.downloaded = @ + 1]
            ELSE [tot EXCEPT !.failed = @ + 1]
  /\ \E d \in AfterDownloadDelays : net' = [net EXCEPT !.acc = @ + d]
  /\ Continue
  /\ UNCHANGED exitCode

\* main after "await downloadFile(...)": the result branches of the two
\* loops (success, 404, other failure, catch), then the delay
MainOnResult(item, res) ==
  /\ last' = [item |-> item, success |-> res.success, status |-> res.status]
  /\ IF ~res.success /\ res.status = 404
     THEN /\ pc' = "Aborted"
          /\ exitCode' = 1
          /\ UNCHANGED <<tot, pos, net>>
     ELSE /\ tot' = IF res.success
                    THEN [tot EXCEPT !.downloaded = @ + 1]
                    ELSE [tot EXCEPT !.failed = @ + 1]
          /\ \E d \in AfterDownloadDelays : net' = [net EXCEPT !.acc = @ + d]
          /\ Continue
          /\ UNCHANGED exitCode

\* main calls downloadFile(url, outputPath, ...) for the item, `over` requests
\* of main having ended in the same step
StartDownload(item, over) ==
  LET o == attemptDownload(NewChain(item), fs[item], FALSE)
  IN /\ dl' = o.c
     /\ fs' = [fs EXCEPT ![item] = o.f]
     /\ inflight' = inflight - over + 1
     /\ lastReq' = ReqOf("GET", o.c, "main")
     /\ pc' = "Get"
     /\ NetStep("GET", 0)
     /\ FirstGrid(item)

\* the resume test of the grid loop
ResumeSkips(item) ==
  /\ ~IsAdditional(item)
  /\ resumeFrom.set
  /\ \/ item[1] < resumeFrom.chapter
     \/ item[1] = resumeFrom.chapter /\ item[2] <= resumeFrom.heading

\* the head of the loop body for the item at pos, up to its first await of
\* the network: resume skip, --skip-existing, the HEAD check, --dry-run,
\* or the download
ItemStart ==
  /\ pc = "Item"
  /\ LET item == Cur
     IN IF ResumeSkips(item) THEN
          /\ Continue
          /\ UNCHANGED <<fs, tot, dl, hd, inflight, lastReq, net, firstGridReq, skippedItems>>
        ELSE IF cfg.skipExisting /\ ~cfg.dryRun /\ fs[item].exists THEN
          /\ tot' = [tot EXCEPT !.attempted = @ + 1, !.skipped = @ + 1]
          /\ skippedItems' = skippedItems \cup {item}
          /\ Continue
          /\ UNCHANGED <<fs, dl, hd, inflight, lastReq, net, firstGridReq>>
        ELSE IF cfg.checkExisting /\ ~cfg.dryRun /\ fs[item].exists THEN
          /\ tot' = [tot EXCEPT !.attempted = @ + 1]
          /\ \E d \in BeforeHeadDelays : NetStep("HEAD", d)
          /\ hd' = 0
          /\ pc' = "Head"
          /\ inflight' = inflight + 1
          /\ lastReq' = [method |-> "HEAD", item |-> item, attempt |-> 1, redirect |-> 0, by |-> "main"]
          /\ FirstGrid(item)
          /\ UNCHANGED <<fs, pos, dl, skippedItems>>
        ELSE IF cfg.dryRun THEN
          /\ tot' = [tot EXCEPT !.attempted = @ + 1, !.downloaded = @ + 1]
          /\ Continue
          /\ UNCHANGED <<fs, dl, hd, inflight, lastReq, net, firstGridReq, skippedItems>>
        ELSE
          /\ tot' = [tot EXCEPT !.attempted = @ + 1]
          /\ StartDownload(item, 0)
          /\ UNCHANGED <<pos, hd, skippedItems>>
  /\ UNCHANGED <<cfg, dir0, aux, br, refererUrl, outputDirMade, report, lastGet,
                 resumeFrom, strays, faults, last, lastHead, exitCode>>

(***************************************************************************)
(* main: resume point detection.                                           *)
(***************************************************************************)
\* fs.readdir(outputDir)
DirListing == {Filename(cfg.edition, i) : i \in {j \in Items : fs[j].exists}}

\* lastFile.match(/^(\d{2})(\d{2})_(\d{4})e\.pdf$/)
MatchCoord(name) ==
  /\ Len(name) = 14
  /\ \A k \in 1..4 : IsDigit(name[k])
  /\ name[5] = Underscore
  /\ \A k \in 6..9 : IsDigit(name[k])
  /\ SubSeq(name, 10, 14) = Str_e_pdf

\* files.filter(f => f.endsWith('.pdf')).sort(), its last element, the match
ResumePointOf(files) ==
  LET pdfFiles == {f \in files : EndsWith(f, Str_pdf)}
  IN IF pdfFiles = {} THEN NoResume
     ELSE LET lastFile == CHOOSE f \in pdfFiles : \A g \in pdfFiles : g = f \/ StrLess(g, f)
          IN IF MatchCoord(lastFile)
             THEN [set |-> TRUE,
                   chapter |-> ParseDigits(SubSeq(lastFile, 1, 2)),
                   heading |-> ParseDigits(SubSeq(lastFile, 3, 4))]
             ELSE NoResume

\* "Find last downloaded file if resuming", between the two loops
ResumeDetect ==
  /\ pc = "Resume"
  /\ resumeFrom' = IF cfg.resume /\ ~cfg.dryRun THEN ResumePointOf(DirListing) ELSE NoResume
  /\ pc' = IF pos > Len(Walk) THEN "Finalizing" ELSE "Item"
  /\ UNCHANGED <<cfg, dir0, aux, br, refererUrl, outputDirMade, report, lastGet,
                 fs, pos, tot, dl, strays, hd, inflight, faults, last, lastReq,
                 lastHead, net, firstGridReq, skippedItems, exitCode>>

(***************************************************************************)
(* checkFileChanged.                                                       *)
(***************************************************************************)
\* whether an answer uses up one of the deviations a run may see: not the
\* nominal answer, nor the further hops of a redirect chain, nor the 404 of
\* a document the origin does not have
HeadCost(r) ==
  IF r = NominalHead \/ (IsRedirect(r.status) /\ r.location = "ok" /\ hd > 0) THEN 0 ELSE 1
GetCost(c, r) ==
  IF \/ r = NominalGet
     \/ r.status = 404
     \/ IsRedirect(r.status) /\ r.location = "ok" /\ c.redirectCount > 0
  THEN 0 ELSE 1

\* HeadDone when checkFileChanged resolves true whatever the sizes
HeadDone_AlwaysChanged(changed) ==
  /\ StartDownload(Cur, 1)
  /\ UNCHANGED <<pos, tot, skippedItems>>

\* HeadDone without totalSkipped++ for an unchanged file
HeadDone_NoCount(changed) ==
  IF changed
  THEN /\ StartDownload(Cur, 1)
       /\ UNCHANGED <<pos, tot, skippedItems>>
  ELSE /\ skippedItems' = skippedItems \cup {Cur}
       /\ Continue
       /\ inflight' = inflight - 1
       /\ UNCHANGED <<fs, dl, lastReq, net, firstGridReq, tot>>

\* checkFileChanged resolved, and main goes on: skip the item, or download
HeadDone(changed) ==
  IF changed
  THEN /\ StartDownload(Cur, 1)
       /\ UNCHANGED <<pos, tot, skippedItems>>
  ELSE /\ tot' = [tot EXCEPT !.skipped = @ + 1]
       /\ skippedItems' = skippedItems \cup {Cur}
       /\ Continue
       /\ inflight' = inflight - 1
       /\ UNCHANGED <<fs, dl, lastReq, net, firstGridReq>>

\* the response callback of the HEAD request of checkFile
HeadResponse ==
  /\ pc = "Head"
  /\ \E r \in HeadResponses :
       /\ faults + HeadCost(r) <= MaxFaults
       /\ faults' = faults + HeadCost(r)
       /\ lastHead' = r
       /\ IF IsRedirect(r.status) /\ r.location # "none" THEN
            \* checkFile(redirectUrl, redirectCount + 1)
            /\ hd' = hd + 1
            /\ IF hd + 1 >= MaxRedirects
               THEN HeadDone(TRUE)
               ELSE /\ lastReq' = [method |-> "HEAD", item |-> Cur, attempt |-> 1,
                                   redirect |-> hd + 1, by |-> "main"]
                    /\ UNCHANGED <<fs, pc, pos, tot, dl, inflight, net, firstGridReq, skippedItems>>
          ELSE
            /\ hd' = hd
            /\ IF r.status # 200 THEN HeadDone(TRUE)
               ELSE LET remoteSize == IF r.hasLength THEN r.length ELSE 0
                    IN HeadDone(~fs[Cur].exists \/ fs[Cur].size # remoteSize)
  /\ UNCHANGED <<cfg, dir0, aux, br, refererUrl, outputDirMade, report, lastGet,
                 resumeFrom, strays, last, exitCode>>

\* the 'error' handler and the 10 s timeout of the HEAD request
HeadFailure ==
  /\ pc = "Head"
  /\ faults < MaxFaults
  /\ faults' = faults + 1
  /\ \E how \in {"error", "timeout"} : HeadDone(TRUE)
  /\ lastHead' = NoHead
  /\ UNCHANGED <<cfg, dir0, aux, br, refererUrl, outputDirMade, report, lastGet,
                 resumeFrom, strays, hd, last, exitCode>>

(***************************************************************************)
(* The callbacks of the downloadFile call main awaits.                     *)
(***************************************************************************)
\* a callback of the awaited chain ran with outcome o, the answer received
\* last being got
ApplyMain(o, cost, got) ==
  /\ faults' = faults + cost
  /\ lastGet' = got
  /\ fs' = [fs EXCEPT ![dl.item] = o.f]
  /\ inflight' = inflight - (IF o.over THEN 1 ELSE 0) + (IF o.issued THEN 1 ELSE 0)
  /\ lastReq' = IF o.issued THEN ReqOf("GET", o.c, "main") ELSE lastReq
  /\ IF o.crash THEN
       \* uncaught exception: the process dies
       /\ pc' = "Crashed"
       /\ exitCode' = 1
       /\ dl' = IdleChain
       /\ UNCHANGED <<strays, pos, tot, last, net>>
     ELSE IF o.res.settled THEN
       /\ dl' = IdleChain
       /\ strays' = IF o.c.phase = "idle" THEN strays ELSE strays \cup {o.c}
       /\ MainOnResult(dl.item, o.res)
     ELSE
       /\ dl' = o.c
       /\ UNCHANGED <<strays, pc, pos, tot, last, net, exitCode>>
  /\ UNCHANGED <<cfg, dir0, aux, br, refererUrl, outputDirMade, report,
                 resumeFrom, hd, lastHead, firstGridReq, skippedItems>>

GetResponse ==
  /\ pc = "Get"
  /\ dl.phase = "req"
  /\ \E r \in GetResponses :
       /\ faults + GetCost(dl, r) <= MaxFaults
       /\ ApplyMain(onResponse(dl, fs[dl.item], r, cfg.retries), GetCost(dl, r), r)

RequestError ==
  /\ pc = "Get"
  /\ dl.phase = "req"
  /\ faults < MaxFaults
  /\ ApplyMain(onError(dl, fs[dl.item], cfg.retries), 1, NoGet)

ConnectionReset ==
  /\ pc = "Get"
  /\ dl.phase = "body"
  /\ faults < MaxFaults
  /\ \E p \in PartialSizes :
       /\ p < dl.body.size
       /\ ApplyMain(onReset(dl, p, cfg.retries), 1, lastGet)

BodyFinish ==
  /\ pc = "Get"
  /\ dl.phase = "body"
  /\ ApplyMain(onFinish(dl), 0, lastGet)

RetryTimer ==
  /\ pc = "Get"
  /\ dl.phase = "timer"
  /\ ApplyMain(onTimer(dl, fs[dl.item]), 0, lastGet)

(***************************************************************************)
(* The callbacks of chains whose promise is already settled.               *)
(***************************************************************************)
\* the callbacks that can run next for chain c, each with its cost
ChainOutcomes(c, f, retries) ==
  IF c.phase = "timer" THEN {[o |-> onTimer(c, f), cost |-> 0]}
  ELSE IF c.phase = "req" THEN
    {[o |-> onResponse(c, f, r, retries), cost |-> GetCost(c, r)] : r \in GetResponses}
    \cup {[o |-> onError(c, f, retries), cost |-> 1]}
  ELSE IF c.phase = "body" THEN
    {[o |-> onFinish(c), cost |-> 0]}
    \cup {[o |-> onReset(c, p, retries), cost |-> 1] : p \in {q \in PartialSizes : q < c.body.size}}
  ELSE {}

\* resolve and reject of a settled promise do nothing; an exception that
\* escapes a callback still kills the process
StrayEvent ==
  /\ Alive
  /\ \E c \in strays : \E e \in ChainOutcomes(c, fs[c.item], cfg.retries) :
       /\ faults + e.cost <= MaxFaults
       /\ faults' = faults + e.cost
       /\ fs' = [fs EXCEPT ![c.item] = e.o.f]
       /\ inflight' = inflight - (IF e.o.over THEN 1 ELSE 0) + (IF e.o.issued THEN 1 ELSE 0)
       /\ lastReq' = IF e.o.issued THEN ReqOf("GET", e.o.c, "stray") ELSE lastReq
       /\ strays' = (strays \ {c}) \cup (IF e.o.c.phase = "idle" THEN {} ELSE {e.o.c})
       /\ IF e.o.crash
          THEN pc' = "Crashed" /\ exitCode' = 1
          ELSE UNCHANGED <<pc, exitCode>>
  /\ UNCHANGED <<cfg, dir0, aux, br, refererUrl, outputDirMade, report, lastGet,
                 pos, resumeFrom, tot, dl, hd, last, lastHead, net, firstGridReq, skippedItems>>

(***************************************************************************)
(* main: the summary.                                                      *)
(***************************************************************************)
Finalize ==
  /\ pc = "Finalizing"
  /\ pc' = "Completed"
  /\ exitCode' = 0
  \* "Download Summary": the counters, then the failed downloads
  /\ report' = [printed |-> TRUE, attempted |-> tot.attempted, downloaded |-> tot.downloaded,
                failed |-> tot.failed, skipped |-> tot.skipped]
  /\ UNCHANGED <<cfg, dir0, aux, br, refererUrl, outputDirMade, lastGet,
                 fs, pos, resumeFrom, tot, dl, strays, hd, inflight, faults, last,
                 lastReq, lastHead, net, firstGridReq, skippedItems>>

Next ==
  \/ Start
  \/ SessionDone
  \/ ItemStart
  \/ ResumeDetect
  \/ HeadResponse
  \/ HeadFailure
  \/ GetResponse
  \/ RequestError
  \/ ConnectionReset
  \/ BodyFinish
  \/ RetryTimer
  \/ StrayEvent
  \/ Finalize

Spec == Init /\ [][Next]_vars

\* The steps the process takes by itself once they are enabled: the steps of
\* main between two awaits, the retry timers (setTimeout), and the requests
\* that carry a timeout: the warm-up (req.setTimeout(10000) in
\* establishSession) and the HEAD of checkFileChanged (req.setTimeout(10000)),
\* which end by an answer, an error or the timeout.  The GET of downloadFile
\* carries no timeout: whether its response, its error or the end of its
\* body ever comes is up to the origin.
Fairness ==
  /\ WF_vars(Start)
  /\ WF_vars(SessionDone)
  /\ WF_vars(ItemStart)
  /\ WF_vars(ResumeDetect)
  /\ WF_vars(HeadResponse \/ HeadFailure)
  /\ WF_vars(RetryTimer)
  /\ WF_vars(Finalize)

LiveSpec == Init /\ [][Next]_vars /\ Fairness

(***************************************************************************)
(* The naming functions on their own: buildUrl and the two filename        *)
(* expressions of main, applied to an edition, a coordinate and a          *)
(* template.                                                               *)
(***************************************************************************)
\* the largest chapter and heading number of the coordinates
MaxNameChapter == 12
MaxNameHeading == 12

\* '2022' and '2017'
Editions == { DEFAULT_EDITION, <<50, 48, 49, 55>> }
\* templates of additional PDFs: 'introduction_{EDITION}e.pdf',
\* '{EDITION}_{EDITION}e.pdf' and 'index.pdf'
NameTemplates ==
  { DEFAULT_ADDITIONAL_PDFS[1],
    <<EditionPlaceholder, Underscore, EditionPlaceholder>> \o Str_e_pdf,
    <<105, 110, 100, 101, 120>> \o Str_pdf }

NamingInputs ==
  { [op |-> "in", edition |-> e, chapter |-> c, heading |-> h, template |-> t,
     filename |-> <<>>, url |-> <<>>, named |-> <<>>] :
    e \in Editions, c \in 1..MaxNameChapter, h \in 1..MaxNameHeading,
    t \in NameTemplates }

NamingInit ==
  /\ aux \in NamingInputs
  /\ br = NoBrowser
  /\ cfg = [edition |-> DEFAULT_EDITION, chapters |-> <<49, 45, 50>>, delay |-> 0,
            delayVariation |-> 2, retries |-> 1, resume |-> FALSE, dryRun |-> TRUE,
            existingArgs |-> <<>>, checkExisting |-> TRUE, skipExisting |-> FALSE]
  /\ fs = DirOf({})
  /\ pc = "Idle"
  /\ pos = 1
  /\ resumeFrom = NoResume
  /\ tot = [attempted |-> 0, downloaded |-> 0, failed |-> 0, skipped |-> 0]
  /\ dl = IdleChain
  /\ strays = {}
  /\ hd = 0
  /\ inflight = 0
  /\ faults = 0
  /\ last = NoLast
  /\ lastReq = NoReq
  /\ lastHead = NoHead
  /\ net = [prev |-> "none", cur |-> "none", gap |-> 0, acc |-> 0]
  /\ firstGridReq = NoItem
  /\ skippedItems = {}
  /\ exitCode = NoExit
  /\ lastGet = NoGet
  /\ dir0 = fs
  /\ outputDirMade = FALSE
  /\ report = NoReport
  /\ refererUrl = <<>>

\* main, grid loop: url = buildUrl(edition, chapter, heading) and
\* filename = `${String(chapter).padStart(2, '0')}${heading}_${edition}e.pdf`,
\* heading being the string generateHeadings made of the heading number
ResolveCoordinate ==
  /\ aux.op \in {"in", "out"}
  /\ aux.filename = <<>>
  /\ aux' = [aux EXCEPT !.op = "out",
                        !.filename = Filename(aux.edition, <<aux.chapter, aux.heading>>),
                        !.url = buildUrl(aux.edition, aux.chapter, PadStart2(aux.heading))]
  /\ UNCHANGED <<cfg, fs, pc, pos, resumeFrom, tot, dl, strays, hd, inflight, faults,
                 last, lastReq, lastHead, net, firstGridReq, skippedItems, exitCode,
                 lastGet, dir0, outputDirMade, report, br, refererUrl>>

\* main, additional loop: filename = pdfTemplate.replace(/{EDITION}/g, edition)
ResolveNamed ==
  /\ aux.op \in {"in", "out"}
  /\ aux.named = <<>>
  /\ aux' = [aux EXCEPT !.op = "out",
                        !.named = ReplaceEdition(aux.template, aux.edition)]
  /\ UNCHANGED <<cfg, fs, pc, pos, resumeFrom, tot, dl, strays, hd, inflight, faults,
                 last, lastReq, lastHead, net, firstGridReq, skippedItems, exitCode,
                 lastGet, dir0, outputDirMade, report, br, refererUrl>>

NamingNext ==
  \/ ResolveCoordinate
  \/ ResolveNamed

NamingSpec == NamingInit /\ [][NamingNext]_vars

(***************************************************************************)
(* The browser-based script: link discovery, then the download loop.       *)
(***************************************************************************)
\* const isOlderEdition = year < 2017
OlderEditionYear == 2017
\* const hasEnoughPdfs = pdfLinks.length >= 100
EnoughPdfs == 100

\* main (browser): one element of config.chapters.split(','), a range
\* "a-b" or a number
chapterRange(range) ==
  IF Includes(range, Hyphen) THEN
    LET parts == Split(range, Hyphen)
        start == ToNumber(parts[1])
        end   == ToNumber(parts[2])
        n     == IF start = NaN \/ end = NaN \/ end - start + 1 < 0
                 THEN 0 ELSE end - start + 1
    IN [i \in 1..n |-> start + (i - 1)]
  ELSE <<ToNumber(range)>>

\* main (browser): config.chapters.split(',').map(...).flat()
RECURSIVE FlatRanges(_)
FlatRanges(parts) ==
  IF parts = <<>> THEN <<>>
  ELSE chapterRange(Head(parts)) \o FlatRanges(Tail(parts))
chapterRanges(chapterStr) == FlatRanges(Split(chapterStr, Comma))

\* the links of a page, in the order of the document (here the order of the
\* coordinates)
RECURSIVE LinkSeq(_)
LinkSeq(S) ==
  IF S = {} THEN <<>>
  ELSE LET m == CHOOSE x \in S : \A y \in S :
                  x[1] < y[1] \/ (x[1] = y[1] /\ x[2] <= y[2])
       IN <<m>> \o LinkSeq(S \ {m})

\* findPDFLinks(page, WCO_BASE_URL, edition): every PDF link of the main page
findPDFLinks(page) == LinkSeq(page)

\* discoverChapterPDFs(page, edition, chapters): for each chapter the links
\* of the current page that match /CC\d{2}_EDITIONe\.pdf/, and when there is
\* none those of the chapter page that match it
discoverChapterPDFs(page, deep, chapters) ==
  LET OfChapter(S, c) == {l \in S : l[1] # 0 /\ l[1] = c}
      Found(c) == IF OfChapter(page, c) # {} THEN OfChapter(page, c)
                  ELSE OfChapter(deep, c)
  IN LinkSeq(UNION {Found(chapters[k]) : k \in 1..Len(chapters)})

\* main (browser): the list of links to download.  [...new Set([...a, ...b])]
\* keeps the first occurrence of each link
discoverLinks(variant, edition, chapterStr, page, deep) ==
  LET pdfLinks == findPDFLinks(page)
      \* the older copy of the script has neither test
      isOlderEdition == variant = "part_003" /\ ParseDigits(edition) < OlderEditionYear
      hasEnoughPdfs == variant = "part_003" /\ Len(pdfLinks) >= EnoughPdfs
  IN IF ~isOlderEdition /\ ~hasEnoughPdfs /\ Len(chapterRanges(chapterStr)) > 0
     THEN LET chapterPdfs == discoverChapterPDFs(page, deep, chapterRanges(chapterStr))
          IN pdfLinks \o SelectSeq(chapterPdfs, LAMBDA l : l \notin page)
     ELSE pdfLinks

\* answers to the GET of downloadPDF, and a request that ends in 'error'
NetworkError == Resp(0, "none", NoBody)
BrowserAnswers == GetResponses \cup {NetworkError}

\* downloadPDF(page, url, outputPath): true and the file written when the
\* answer is a 200 whose body starts with %PDF; false and no file otherwise
\* (404 resolves an empty buffer, every other status and an error reject).
\* In the older copy of the script a 404 ends the process.
downloadPDF(variant, r, f) ==
  IF r.status = 404 THEN
    [success |-> FALSE, file |-> f, exit |-> variant = "part_004"]
  ELSE IF r.status # 200 THEN [success |-> FALSE, file |-> f, exit |-> FALSE]
  ELSE IF r.body.size = 0 /\ variant = "part_003"
  THEN [success |-> FALSE, file |-> f, exit |-> FALSE]
  ELSE IF ~r.body.magic THEN [success |-> FALSE, file |-> f, exit |-> FALSE]
  ELSE [success |-> TRUE, file |-> FileOf(r.body), exit |-> FALSE]

NoFetch == [item |-> NoItem, resp |-> NoGet, success |-> FALSE, before |-> NoFile]

\* the older edition of the model: "2012"
OLDER_EDITION == <<50, 48, 49, 50>>
\* the --chapters values of the browser runs: "1" and "2,1"
BrowserChapterArgs == { <<49>>, <<50, 44, 49>> }
\* the links of the main page and those only a chapter page shows
BrowserPages == { {}, {<<0, 1>>, <<1, 1>>}, Items }
BrowserDeep == { {}, GridItems }

\* main (browser): blockingCheck, evaluated on the text of the landing page
\* (the phrase of it that matters: none, 'access denied' or 'captcha')
blockingCheck(bodyText) ==
  [hasBlockedMessage |-> bodyText \in {"blocked", "access denied", "forbidden", "rate limit"},
   hasCaptcha |-> bodyText = "captcha"]

BrowserInputs ==
  { [pc |-> "Start", variant |-> v, edition |-> e, chapters |-> ch, dryRun |-> dry,
     bodyText |-> txt, warned |-> FALSE,
     page |-> pg, deep |-> dp, pdfLinks |-> <<>>, i |-> 0,
     files |-> d, requested |-> {}, downloaded |-> 0, failed |-> 0, skipped |-> 0,
     faults |-> 0, last |-> NoFetch] :
    v \in {"part_003", "part_004"}, e \in {DEFAULT_EDITION, OLDER_EDITION},
    ch \in BrowserChapterArgs, dry \in BOOLEAN, pg \in BrowserPages,
    txt \in {"", "access denied", "captcha"},
    dp \in BrowserDeep, d \in {DirOf({}), DirOf({<<0, 1>>})} }

BrowserInit ==
  /\ br \in BrowserInputs
  /\ aux = NoAux
  /\ cfg = [edition |-> DEFAULT_EDITION, chapters |-> <<49, 45, 50>>, delay |-> 0,
            delayVariation |-> 2, retries |-> 1, resume |-> FALSE, dryRun |-> TRUE,
            existingArgs |-> <<>>, checkExisting |-> TRUE, skipExisting |-> FALSE]
  /\ fs = DirOf({})
  /\ pc = "Idle"
  /\ pos = 1
  /\ resumeFrom = NoResume
  /\ tot = [attempted |-> 0, downloaded |-> 0, failed |-> 0, skipped |-> 0]
  /\ dl = IdleChain
  /\ strays = {}
  /\ hd = 0
  /\ inflight = 0
  /\ faults = 0
  /\ last = NoLast
  /\ lastReq = NoReq
  /\ lastHead = NoHead
  /\ net = [prev |-> "none", cur |-> "none", gap |-> 0, acc |-> 0]
  /\ firstGridReq = NoItem
  /\ skippedItems = {}
  /\ exitCode = NoExit
  /\ lastGet = NoGet
  /\ dir0 = fs
  /\ outputDirMade = FALSE
  /\ report = NoReport
  /\ refererUrl = <<>>

\* main (browser): page.goto of the landing page and, in part_003,
\* blockingCheck, whose two flags each print a warning (console.error) and
\* nothing else; then findPDFLinks, and
\* discoverChapterPDFs for a newer edition whose main page has fewer than
\* 100 links
BrowserDiscover ==
  /\ br.pc = "Start"
  /\ br' = [br EXCEPT !.pc = "Loop", !.i = 1,
                      !.warned = LET b == blockingCheck(br.bodyText)
                                 IN /\ br.variant = "part_003"
                                    /\ b.hasBlockedMessage \/ b.hasCaptcha,
                      !.pdfLinks = discoverLinks(br.variant, br.edition, br.chapters,
                                                  br.page, br.deep)]
  /\ UNCHANGED <<mainVars, aux>>

\* main (browser): one turn of the download loop
BrowserItem ==
  /\ br.pc = "Loop"
  /\ br.i <= Len(br.pdfLinks)
  /\ LET link == br.pdfLinks[br.i]
     IN IF br.files[link].exists THEN
          br' = [br EXCEPT !.skipped = @ + 1, !.i = @ + 1]
        ELSE IF br.dryRun /\ br.variant = "part_003" THEN
          br' = [br EXCEPT !.downloaded = @ + 1, !.i = @ + 1]
        ELSE
          \E r \in BrowserAnswers :
            LET cost == IF r = NominalGet THEN 0 ELSE 1
                res == downloadPDF(br.variant, r, br.files[link])
            IN /\ br.faults + cost <= MaxFaults
               /\ br' = [br EXCEPT
                           !.faults = @ + cost,
                           !.requested = @ \cup {link},
                           !.files = [@ EXCEPT ![link] = res.file],
                           !.last = [item |-> link, resp |-> r, success |-> res.success,
                                     before |-> br.files[link]],
                           !.downloaded = IF res.success /\ ~res.exit THEN @ + 1 ELSE @,
                           !.failed = IF ~res.success /\ ~res.exit THEN @ + 1 ELSE @,
                           !.i = IF res.exit THEN @ ELSE @ + 1,
                           !.pc = IF res.exit THEN "Aborted" ELSE @]
  /\ UNCHANGED <<mainVars, aux>>

\* main (browser): the summary, after the last link
BrowserSummary ==
  /\ br.pc = "Loop"
  /\ br.i > Len(br.pdfLinks)
  /\ br' = [br EXCEPT !.pc = "Done"]
  /\ UNCHANGED <<mainVars, aux>>

BrowserNext ==
  \/ BrowserDiscover
  \/ BrowserItem
  \/ BrowserSummary

BrowserSpec == BrowserInit /\ [][BrowserNext]_vars

(***************************************************************************)
(* downloadFile: the test a redirect's Location header goes through.       *)
(***************************************************************************)
\* String.prototype.includes
includes(s, sub) ==
  \E k \in 1..(Len(s) - Len(sub) + 1) : SubSeq(s, k, k + Len(sub) - 1) = sub

\* the response callback on a 3xx: no Location header, a Location that
\* "is to an error page" (location.includes('/error') ||
\* location.includes('404')), or a Location that is followed
LocationKind(location) ==
  IF location = <<>> THEN "none"
  ELSE IF \/ includes(location, <<47, 101, 114, 114, 111, 114>>)   \* '/error'
          \/ includes(location, <<52, 48, 52>>)                   \* '404'
       THEN "error"
  ELSE "ok"

\* a 302 whose Location is the URL of a document of the grid, an error page
\* of the site ('/error/notfound', '/404'), or missing
RedirectInputs ==
  { [op |-> "location", document |-> TRUE, item |-> <<c, h>>,
     location |-> buildUrl(e, c, PadStart2(h)), res |-> NoRes, issued |-> FALSE] :
    e \in Editions, c \in 1..MaxNameChapter, h \in 1..MaxNameHeading }
  \cup { [op |-> "location", document |-> FALSE, item |-> NoItem,
          location |-> l, res |-> NoRes, issued |-> FALSE] :
         l \in { <<47, 101, 114, 114, 111, 114, 47, 110, 111, 116, 102, 111, 117, 110, 100>>,
                 <<47, 52, 48, 52>>, <<>> } }

RedirectInit ==
  /\ aux \in RedirectInputs
  /\ br = NoBrowser
  /\ cfg = [edition |-> DEFAULT_EDITION, chapters |-> <<49, 45, 50>>, delay |-> 0,
            delayVariation |-> 2, retries |-> 1, resume |-> FALSE, dryRun |-> TRUE,
            existingArgs |-> <<>>, checkExisting |-> TRUE, skipExisting |-> FALSE]
  /\ fs = DirOf({})
  /\ pc = "Idle"
  /\ pos = 1
  /\ resumeFrom = NoResume
  /\ tot = [attempted |-> 0, downloaded |-> 0, failed |-> 0, skipped |-> 0]
  /\ dl = IdleChain
  /\ strays = {}
  /\ hd = 0
  /\ inflight = 0
  /\ faults = 0
  /\ last = NoLast
  /\ lastReq = NoReq
  /\ lastHead = NoHead
  /\ net = [prev |-> "none", cur |-> "none", gap |-> 0, acc |-> 0]
  /\ firstGridReq = NoItem
  /\ skippedItems = {}
  /\ exitCode = NoExit
  /\ lastGet = NoGet
  /\ dir0 = fs
  /\ outputDirMade = FALSE
  /\ report = NoReport
  /\ refererUrl = <<>>

\* the response callback of the first request of a chain, answered by a 302
\* with this Location header
RedirectResponse ==
  /\ aux.op = "location"
  /\ LET c == [NewChain(<<1, 1>>) EXCEPT !.phase = "req"]
         o == onResponse(c, EmptyFile, Resp(302, LocationKind(aux.location), NoBody), 1)
     IN aux' = [aux EXCEPT !.op = "redirected", !.res = o.res, !.issued = o.issued]
  /\ UNCHANGED <<mainVars, br>>

RedirectSpec == RedirectInit /\ [][RedirectResponse]_vars

(***************************************************************************)
(* The cookie jar: getBrowserHeaders and extractCookies, as establishSession, *)
(* checkFileChanged and downloadFile use them.                             *)
(***************************************************************************)
MaxResponses == 3

\* the name=value parts of the Set-Cookie headers of one response, in the
\* order of the headers (no header: the empty sequence)
Cookie(name, value) == [name |-> name, value |-> value]
SetCookies ==
  {<<>>}
  \cup { <<Cookie(n, v)>> : n \in {"session", "lb"}, v \in {1, 2} }
  \cup { <<Cookie(p[1], v1), Cookie(p[2], v2)>> :
           p \in {<<"session", "lb">>, <<"lb", "session">>},
           v1 \in {1, 2}, v2 \in {1, 2} }

\* extractCookies(response): if (cookies.length > 0) cookieJar = cookies.join('; ')
extractCookies(jar, setCookie) ==
  IF Len(setCookie) > 0 THEN setCookie ELSE jar

\* the jar (let cookieJar: string = ''), the Cookie header of the last request (sent), and the last
\* response observed: its kind, its Set-Cookie values and the jar before it
CookieInputs ==
  { [op |-> "cookies", step |-> "start", jar |-> <<>>, sent |-> <<>>,
     kind |-> "none", set |-> <<>>, before |-> <<>>, n |-> 0, first |-> s] :
    s \in SetCookies }

CookieInit ==
  /\ aux \in CookieInputs
  /\ br = NoBrowser
  /\ cfg = [edition |-> DEFAULT_EDITION, chapters |-> <<49, 45, 50>>, delay |-> 0,
            delayVariation |-> 2, retries |-> 1, resume |-> FALSE, dryRun |-> FALSE,
            existingArgs |-> <<>>, checkExisting |-> TRUE, skipExisting |-> FALSE]
  /\ fs = DirOf({})
  /\ pc = "Idle"
  /\ pos = 1
  /\ resumeFrom = NoResume
  /\ tot = [attempted |-> 0, downloaded |-> 0, failed |-> 0, skipped |-> 0]
  /\ dl = IdleChain
  /\ strays = {}
  /\ hd = 0
  /\ inflight = 0
  /\ faults = 0
  /\ last = NoLast
  /\ lastReq = NoReq
  /\ lastHead = NoHead
  /\ net = [prev |-> "none", cur |-> "none", gap |-> 0, acc |-> 0]
  /\ firstGridReq = NoItem
  /\ skippedItems = {}
  /\ exitCode = NoExit
  /\ lastGet = NoGet
  /\ dir0 = fs
  /\ outputDirMade = FALSE
  /\ report = NoReport
  /\ refererUrl = <<>>

\* establishSession: the request is sent without a Cookie header
\* (delete headers['Cookie']); its response goes through extractCookies; an
\* error or the timeout leaves the jar as it is
CookieWarmUp ==
  /\ aux.op = "cookies" /\ aux.step = "start"
  /\ \/ aux' = [aux EXCEPT !.step = "loop", !.sent = <<>>, !.kind = "warmup",
                           !.set = aux.first, !.before = aux.jar, !.n = 1,
                           !.jar = extractCookies(aux.jar, aux.first)]
     \/ aux' = [aux EXCEPT !.step = "loop", !.sent = <<>>]
  /\ UNCHANGED <<mainVars, br>>

\* checkFileChanged: a HEAD request with getBrowserHeaders(baseReferer), which
\* sets headers['Cookie'] = cookieJar; its
\* response callback reads the status, Location and Content-Length only
CookieHead ==
  /\ aux.op = "cookies" /\ aux.step = "loop" /\ aux.n < MaxResponses
  /\ \E s \in SetCookies :
       aux' = [aux EXCEPT !.sent = aux.jar, !.kind = "head", !.set = s,
                          !.before = aux.jar, !.n = @ + 1]
  /\ UNCHANGED <<mainVars, br>>

\* attemptDownload: a GET with getBrowserHeaders(referer); the response
\* callback begins with extractCookies(response), for a redirect hop as for
\* any other response
CookieGet ==
  /\ aux.op = "cookies" /\ aux.step = "loop" /\ aux.n < MaxResponses
  /\ \E s \in SetCookies :
       aux' = [aux EXCEPT !.sent = aux.jar, !.kind = "get", !.set = s,
                          !.before = aux.jar, !.n = @ + 1,
                          !.jar = extractCookies(aux.jar, s)]
  /\ UNCHANGED <<mainVars, br>>

CookieNext ==
  \/ CookieWarmUp
  \/ CookieHead
  \/ CookieGet

CookieSpec == CookieInit /\ [][CookieNext]_vars

(***************************************************************************)
(* downloadFile: the Referer header of the requests of one call.           *)
(***************************************************************************)
\* attemptDownload without its previousUrl argument
refererOf_MainOnly(previousUrl, mainReferer) == mainReferer

\* const referer = previousUrl || refererUrl (previousUrl undefined: <<>>)
refererOf(previousUrl, mainReferer) ==
  IF previousUrl # <<>> THEN previousUrl ELSE mainReferer

\* the first request of downloadFile(url, outputPath, refererUrl, retries):
\* attemptDownload(1, url, 0, undefined).  sent is the request issued last;
\* issuer is the URL of the request whose redirect was followed last
RefererInputs ==
  { [op |-> "referer", retries |-> r, mainReferer |-> mainPageUrl(e),
     c |-> [NewChain(<<1, 1>>) EXCEPT !.phase = "req"], f |-> EmptyFile,
     currentUrl |-> buildUrl(e, 1, PadStart2(1)), previousUrl |-> <<>>,
     sent |-> [url |-> buildUrl(e, 1, PadStart2(1)),
               referer |-> refererOf(<<>>, mainPageUrl(e))],
     issuer |-> <<>>] :
    r \in RetryArgs, e \in Editions }

RefererInit ==
  /\ aux \in RefererInputs
  /\ br = NoBrowser
  /\ cfg = [edition |-> DEFAULT_EDITION, chapters |-> <<49, 45, 50>>, delay |-> 0,
            delayVariation |-> 2, retries |-> 1, resume |-> FALSE, dryRun |-> TRUE,
            existingArgs |-> <<>>, checkExisting |-> TRUE, skipExisting |-> FALSE]
  /\ fs = DirOf({})
  /\ pc = "Idle"
  /\ pos = 1
  /\ resumeFrom = NoResume
  /\ tot = [attempted |-> 0, downloaded |-> 0, failed |-> 0, skipped |-> 0]
  /\ dl = IdleChain
  /\ strays = {}
  /\ hd = 0
  /\ inflight = 0
  /\ faults = 0
  /\ last = NoLast
  /\ lastReq = NoReq
  /\ lastHead = NoHead
  /\ net = [prev |-> "none", cur |-> "none", gap |-> 0, acc |-> 0]
  /\ firstGridReq = NoItem
  /\ skippedItems = {}
  /\ exitCode = NoExit
  /\ lastGet = NoGet
  /\ dir0 = fs
  /\ outputDirMade = FALSE
  /\ report = NoReport
  /\ refererUrl = <<>>

\* one callback of the call: the response callback, the 'error' handler,
\* 'finish', or a retry timer.  A redirect that is followed goes to an
\* absolute Location (redirectUrl = location) with
\* attemptDownload(attempt, redirectUrl, redirectCount + 1, currentUrl); a
\* retry is attemptDownload(attempt + 1, currentUrl, redirectCount, previousUrl)
RefererEvent ==
  /\ aux.op = "referer"
  /\ \E e \in ChainOutcomes(aux.c, aux.f, aux.retries),
        location \in { buildUrl(DEFAULT_EDITION, ch, PadStart2(1)) : ch \in 2..3 } :
       LET hop == e.o.issued /\ aux.c.phase = "req"
           cur == IF hop THEN location ELSE aux.currentUrl
           prev == IF hop THEN aux.currentUrl ELSE aux.previousUrl
       IN aux' = [aux EXCEPT
                    !.c = e.o.c, !.f = e.o.f,
                    !.currentUrl = cur, !.previousUrl = prev,
                    !.issuer = IF hop THEN aux.sent.url ELSE @,
                    !.sent = IF e.o.issued
                             THEN [url |-> cur, referer |-> refererOf(prev, aux.mainReferer)]
                             ELSE @]
  /\ UNCHANGED <<mainVars, br>>

RefererSpec == RefererInit /\ [][RefererEvent]_vars

(***************************************************************************)
(* downloadFile: every request and timer of one call.  The 'error' handler *)
(* stays on a request after its response callback has run: a connection    *)
(* reset while the body of a response that is not a 200 is still in flight *)
(* runs it as a reset in the middle of a 200 body does.                    *)
(***************************************************************************)
\* the first request of downloadFile(url, outputPath, refererUrl, retries);
\* open: the requests and timers pending, n: the GET requests issued so far
CallInputs ==
  { [op |-> "call", retries |-> r, f |-> EmptyFile, n |-> 1,
     open |-> SetToBag({[NewChain(<<1, 1>>) EXCEPT !.phase = "req"]})] :
    r \in RetryArgs }

CallInit ==
  /\ aux \in CallInputs
  /\ br = NoBrowser
  /\ cfg = [edition |-> DEFAULT_EDITION, chapters |-> <<49, 45, 50>>, delay |-> 0,
            delayVariation |-> 2, retries |-> 1, resume |-> FALSE, dryRun |-> TRUE,
            existingArgs |-> <<>>, checkExisting |-> TRUE, skipExisting |-> FALSE]
  /\ fs = DirOf({})
  /\ pc = "Idle"
  /\ pos = 1
  /\ resumeFrom = NoResume
  /\ tot = [attempted |-> 0, downloaded |-> 0, failed |-> 0, skipped |-> 0]
  /\ dl = IdleChain
  /\ strays = {}
  /\ hd = 0
  /\ inflight = 0
  /\ faults = 0
  /\ last = NoLast
  /\ lastReq = NoReq
  /\ lastHead = NoHead
  /\ net = [prev |-> "none", cur |-> "none", gap |-> 0, acc |-> 0]
  /\ firstGridReq = NoItem
  /\ skippedItems = {}
  /\ exitCode = NoExit
  /\ lastGet = NoGet
  /\ dir0 = fs
  /\ outputDirMade = FALSE
  /\ report = NoReport
  /\ refererUrl = <<>>

\* the pending requests and timers after callback o of chain c has run;
\* unread tells that the response of c is not a 200 and its body is not
\* over yet
CallAfter(c, o, unread) ==
  [aux EXCEPT
     !.f = o.f,
     !.n = IF o.issued THEN @ + 1 ELSE @,
     !.open = (@ (-) SetToBag({c}))
              (+) (IF o.c.phase = "idle" THEN EmptyBag ELSE SetToBag({o.c}))
              (+) (IF unread THEN SetToBag({[c EXCEPT !.phase = "unread"]}) ELSE EmptyBag)]

\* the response callback, the 'error' handler before a response, 'finish',
\* a reset in the middle of a 200 body, or a retry timer
CallCallback ==
  /\ aux.op = "call"
  /\ aux.n <= aux.retries + MaxRedirects
  /\ \E c \in BagToSet(aux.open) :
       \/ /\ c.phase = "req"
          /\ \E r \in GetResponses :
               aux' = CallAfter(c, onResponse(c, aux.f, r, aux.retries), r.status # 200)
       \/ /\ c.phase # "unread"
          /\ \E e \in ChainOutcomes(c, aux.f, aux.retries) :
               aux' = CallAfter(c, e.o, FALSE)
  /\ UNCHANGED <<mainVars, br>>

\* the connection is reset before the body of a response that is not a 200
\* is over: the 'error' handler of the request runs
CallLateError ==
  /\ aux.op = "call"
  /\ aux.n <= aux.retries + MaxRedirects
  /\ \E c \in BagToSet(aux.open) :
       /\ c.phase = "unread"
       /\ aux' = CallAfter(c, onError([c EXCEPT !.phase = "req"], aux.f, aux.retries), FALSE)
  /\ UNCHANGED <<mainVars, br>>

\* the body of a response that is not a 200 is over
CallBodyEnd ==
  /\ aux.op = "call"
  /\ \E c \in BagToSet(aux.open) :
       /\ c.phase = "unread"
       /\ aux' = [aux EXCEPT !.open = @ (-) SetToBag({c})]
  /\ UNCHANGED <<mainVars, br>>

CallNext ==
  \/ CallCallback
  \/ CallLateError
  \/ CallBodyEnd

CallSpec == CallInit /\ [][CallNext]_vars

(***************************************************************************)
(* The command-line options of the two scripts: --chapters and the         *)
(* politeness delay.                                                       *)
(***************************************************************************)
MaxChapterArg == 5
MaxDelayArg == 3

\* shared-utils getRandomDelay(baseDelay, variation = 5000, allowNegative = true):
\* floor(random * variation) is added, or, when allowNegative, added or
\* subtracted as a second random draw decides
sharedGetRandomDelay(baseDelay, variation, allowNegative) ==
  LET randomVariation == 0..(IF variation > 0 THEN variation - 1 ELSE 0)
  IN IF allowNegative
     THEN {baseDelay + k : k \in randomVariation} \cup {baseDelay - k : k \in randomVariation}
     ELSE {baseDelay + k : k \in randomVariation}

\* the elements of a --chapters value: a chapter number, or a range "a-b"
\* with a <= b
ChapterElements ==
  { <<Digit(n)>> : n \in 1..MaxChapterArg }
  \cup { <<Digit(p[1]), Hyphen, Digit(p[2])>> :
         p \in { q \in (1..MaxChapterArg) \X (1..MaxChapterArg) : q[1] <= q[2] } }

\* the inputs: a --chapters value of one or two comma-separated elements
\* ("1-5", "1,2", "1-3,5"), or a base delay and a variation.  http, browser
\* and d are the results, filled in by the actions
OptionInputs ==
  { [op |-> "option", fn |-> "chapters", chapterStr |-> s, baseDelay |-> 0, variation |-> 1,
     done |-> FALSE, http |-> <<>>, browser |-> <<>>, by |-> "none", d |-> 0] :
    s \in ChapterElements \cup { a \o <<Comma>> \o b : a \in ChapterElements, b \in ChapterElements } }
  \cup
  { [op |-> "option", fn |-> "delay", chapterStr |-> <<>>, baseDelay |-> b, variation |-> v,
     done |-> FALSE, http |-> <<>>, browser |-> <<>>, by |-> "none", d |-> 0] :
    b \in 0..MaxDelayArg, v \in 1..MaxDelayArg }

OptionInit ==
  /\ aux \in OptionInputs
  /\ br = NoBrowser
  /\ cfg = [edition |-> DEFAULT_EDITION, chapters |-> <<49, 45, 50>>, delay |-> 0,
            delayVariation |-> 2, retries |-> 1, resume |-> FALSE, dryRun |-> TRUE,
            existingArgs |-> <<>>, checkExisting |-> TRUE, skipExisting |-> FALSE]
  /\ fs = DirOf({})
  /\ pc = "Idle"
  /\ pos = 1
  /\ resumeFrom = NoResume
  /\ tot = [attempted |-> 0, downloaded |-> 0, failed |-> 0, skipped |-> 0]
  /\ dl = IdleChain
  /\ strays = {}
  /\ hd = 0
  /\ inflight = 0
  /\ faults = 0
  /\ last = NoLast
  /\ lastReq = NoReq
  /\ lastHead = NoHead
  /\ net = [prev |-> "none", cur |-> "none", gap |-> 0, acc |-> 0]
  /\ firstGridReq = NoItem
  /\ skippedItems = {}
  /\ exitCode = NoExit
  /\ lastGet = NoGet
  /\ dir0 = fs
  /\ outputDirMade = FALSE
  /\ report = NoReport
  /\ refererUrl = <<>>

\* parseArgs of both scripts on the same --chapters value: parseChapters
\* (HTTP script) and the chapterRanges expression (browser script)
OptionChapters ==
  /\ aux.op = "option" /\ aux.fn = "chapters" /\ ~aux.done
  /\ aux' = [aux EXCEPT !.done = TRUE,
                        !.http = parseChapters(aux.chapterStr),
                        !.browser = chapterRanges(aux.chapterStr)]
  /\ UNCHANGED <<mainVars, br>>

\* getRandomDelay(baseDelay, variation) of the HTTP script
OptionDelayHttp ==
  /\ aux.op = "option" /\ aux.fn = "delay" /\ ~aux.done
  /\ \E d \in getRandomDelay(aux.baseDelay, aux.variation) :
       aux' = [aux EXCEPT !.done = TRUE, !.by = "http", !.d = d]
  /\ UNCHANGED <<mainVars, br>>

\* getRandomDelay(baseDelay, variation) of shared-utils: allowNegative is
\* left to its default, true
OptionDelayShared ==
  /\ aux.op = "option" /\ aux.fn = "delay" /\ ~aux.done
  /\ \E d \in sharedGetRandomDelay(aux.baseDelay, aux.variation, TRUE) :
       aux' = [aux EXCEPT !.done = TRUE, !.by = "shared", !.d = d]
  /\ UNCHANGED <<mainVars, br>>

OptionNext ==
  \/ OptionChapters
  \/ OptionDelayHttp
  \/ OptionDelayShared

OptionSpec == OptionInit /\ [][OptionNext]_vars

(***************************************************************************)
(* Properties.                                                             *)
(***************************************************************************)
\* main received the DownloadResult of a downloadFile call in this step
Settles == last' # last
Absent(l) == ~l.success /\ l.status = 404
IsGrid(item) == item # NoItem /\ ~IsAdditional(item)

C2_GridAbsentIsSkipped ==
  [][ (Settles /\ IsGrid(last'.item) /\ Absent(last'))
      => (pc' # "Aborted" /\ tot'.skipped = tot.skipped + 1 /\ tot'.failed = tot.failed) ]_vars

\* C3: a grid item whose fetch ends with 403 or 429 aborts the run: main
\* attempts no later item and the process exits with a non-zero code.
C3_BlockedAborts ==
  [][ (Settles /\ IsGrid(last'.item) /\ last'.status \in {403, 429})
      => (pc' = "Aborted" /\ exitCode' \notin {0, NoExit}) ]_vars

\* C4: when the body of a 200 answer does not begin with %PDF, the fetch, once
\* the body is written, deletes the file and does not report success.
C4_NonPdfBodyDeleted ==
  [][ (pc = "Get" /\ dl.phase = "body" /\ ~dl.body.magic /\ dl'.phase = "idle")
      => (~fs'[dl.item].exists /\ ~(Settles /\ last'.success)) ]_vars

\* a step of main from the head of the loop body (not a callback of a
\* settled chain)
MainStep == pos' # pos \/ pc' \in {"Head", "Get"}
\* checkFileChanged resolves in this step
HeadSettles == pc = "Head" /\ pc' \notin {"Head", "Crashed"}
\* the answer that settles checkFileChanged is a 200 whose Content-Length is the
\* size of the local file
SameLength == /\ lastHead'.status = 200
              /\ lastHead'.hasLength
              /\ fs[Cur].exists
              /\ lastHead'.length = fs[Cur].size
\* the item is left without a GET: it is counted as skipped, main moves to
\* the next item and issues no request in this step
SkippedNoGet == /\ Cur \in skippedItems'
                /\ tot'.skipped = tot.skipped + 1
                /\ tot'.downloaded = tot.downloaded
                /\ pos' = pos + 1
                /\ dl' = IdleChain
                /\ lastReq' = lastReq
                /\ pc' \notin {"Head", "Get"}

\* C5 as stated: when the local file has the Content-Length the origin
\* returns, check-existing mode issues exactly one HEAD for the item, counts
\* it as skipped and issues no GET for it.
C5_ExactlyOneHead ==
  [][ (HeadSettles /\ SameLength) => (hd' = 0 /\ SkippedNoGet) ]_vars

\* C5, amended: in a run that is not a dry run, for an item the resume cursor
\* does not skip and whose file exists: in check-existing mode, when the
\* answer that settles checkFileChanged is a 200 with the Content-Length equal to the
\* local size, the item is counted as skipped and no GET is issued for it,
\* after one HEAD per hop of the redirect chain (hd' + 1 of them, exactly one
\* when the origin answers the first HEAD); under --skip-existing the item is
\* counted as skipped without any request; main never returns to an item.
C5_UnchangedFileNotFetched ==
  [][ /\ (HeadSettles /\ SameLength)
         => (cfg.checkExisting /\ SkippedNoGet /\ hd' = hd /\ hd' < MaxRedirects
             /\ inflight' = inflight - 1)
      /\ (pc = "Item" /\ MainStep /\ cfg.skipExisting /\ ~cfg.dryRun
          /\ fs[Cur].exists /\ ~ResumeSkips(Cur))
         => (SkippedNoGet /\ inflight' = inflight /\ hd' = hd)
      /\ pos' >= pos ]_vars

C5_Witness ==
  /\ cfg.checkExisting
  /\ lastHead = NominalHead
  /\ hd = 0
  /\ lastReq.method = "HEAD"
  /\ lastReq.item \in skippedItems
  /\ IsGrid(lastReq.item)
  /\ fs[lastReq.item] = FileOf(PdfBody)
  /\ pc = "Item"

\* the (chapter, heading) pairs of the filenames of the directory that match
\* the coordinate pattern, and their order
CoordPairs ==
  { <<ParseDigits(SubSeq(f, 1, 2)), ParseDigits(SubSeq(f, 3, 4))>> :
      f \in {g \in DirListing : MatchCoord(g)} }
PairLeq(a, b) == a[1] < b[1] \/ (a[1] = b[1] /\ a[2] <= b[2])

\* C6: with --resume, the cursor is the greatest (chapter, heading) pair among
\* the filenames that match the coordinate pattern, whatever other files the
\* directory holds.
C6_CursorIsGreatestPair ==
  [][ (pc = "Resume" /\ pc' \notin {"Resume", "Crashed"} /\ cfg.resume /\ ~cfg.dryRun)
      => resumeFrom' =
           IF CoordPairs = {} THEN NoResume
           ELSE LET greatest == CHOOSE a \in CoordPairs : \A b \in CoordPairs : PairLeq(b, a)
                IN [set |-> TRUE, chapter |-> greatest[1], heading |-> greatest[2]] ]_vars

\* the configured pairs, and those after the cursor
Configured == {Walk[k] : k \in (NumAdditional + 1)..Len(Walk)}
AfterCursor ==
  {a \in Configured : ~PairLeq(a, <<resumeFrom.chapter, resumeFrom.heading>>)}

\* C7: once the cursor is set, main issues no HEAD or GET for a pair at or
\* before it, and the first grid pair main issues a request for is the
\* smallest configured pair after the cursor.
C7_ResumeStartsAfterCursor ==
  [][ resumeFrom.set =>
        /\ (lastReq' # lastReq /\ lastReq'.by = "main" /\ IsGrid(lastReq'.item))
           => lastReq'.item \in AfterCursor
        /\ (firstGridReq = NoItem /\ firstGridReq' # NoItem)
           => /\ firstGridReq' \in AfterCursor
              /\ \A b \in AfterCursor : PairLeq(firstGridReq', b) ]_vars

\* C8: after a fetch that does not end in success, no file (neither a
\* zero-byte stub nor a partial body) is left at the path of the document.
C8_NoFileAfterFailure ==
  [][ (Settles /\ ~last'.success) => ~fs'[last'.item].exists ]_vars

\* C9: at most one request to the origin is in flight.
C9_OneRequestInFlight == inflight <= 1

\* C10: with delay > 0, between two consecutive network-issuing steps of main
\* (HEAD checks and downloadFile calls) main has slept at least the base delay.
C10_PacedSteps ==
  (cfg.delay > 0 /\ net.prev \in {"HEAD", "GET"} /\ net.cur \in {"HEAD", "GET"})
    => net.gap >= cfg.delay

\* the downloadFile call main awaits ends in this step: its promise settles,
\* or the process dies in one of its callbacks
ChainEnds == pc = "Get" /\ dl.phase # "idle" /\ dl'.phase = "idle"
\* a callback of the call main awaits runs in this step
ChainSteps == pc = "Get" /\ dl' # dl

\* C11: a fetch of main that ends in a failure other than 404, 403 or 429 (a
\* 5xx or a network error after the retries, a redirect failure) is counted
\* as failed and main goes on with the next item; a Completed run exits 0.
C11_FailureNeverStops ==
  [][ /\ (ChainEnds /\ ~(Settles /\ (last'.success \/ last'.status \in {404, 403, 429})))
         => (Settles /\ tot'.failed = tot.failed + 1 /\ pos' = pos + 1
             /\ pc' \notin {"Aborted", "Crashed"} /\ exitCode' = NoExit)
      /\ pc' = "Completed" => exitCode' = 0 ]_vars

\* C12: in every terminal state, Aborted included, the failures recorded
\* during the run have been printed in the summary.
C12_FailuresReported ==
  (pc \in {"Completed", "Aborted"} /\ tot.failed > 0)
    => (report.printed /\ report.failed = tot.failed)

\* C13: a run without --resume that found the output directory empty and was
\* not stopped by the absence of a mandatory document has made, when it ends,
\* one attempt per additional document and one per heading of every
\* configured chapter.
C13_AllHeadingsAttempted ==
  (/\ ~cfg.resume
   /\ dir0 = DirOf({})
   /\ pc \in {"Completed", "Aborted"}
   /\ ~(IsAdditional(last.item) /\ Absent(last)))
    => tot.attempted = NumAdditional + MaxHeading * Len(parseChapters(cfg.chapters))

\* C14: after an answer 404, 403 or 429, and after a 200 whose body is not a
\* PDF, the fetch ends without another GET, whatever --retries is.
C14_TerminalNotRetried ==
  [][ /\ (ChainSteps /\ dl.phase = "req" /\ lastGet'.status \in {404, 403, 429})
         => (dl'.phase = "idle" /\ lastReq' = lastReq)
      /\ (ChainSteps /\ dl.phase = "body" /\ ~dl.body.magic /\ faults' = faults)
         => (dl'.phase = "idle" /\ lastReq' = lastReq) ]_vars

\* C15: when an attempt ends at the redirect hop limit and attempts remain,
\* the fetch does not end: another attempt for the item is scheduled.
C15_RedirectLoopRetried ==
  [][ (/\ ChainSteps /\ dl.phase = "req"
       /\ IsRedirect(lastGet'.status) /\ lastGet'.location = "ok"
       /\ dl.redirectCount + 1 >= MaxRedirects
       /\ dl.attempt < cfg.retries)
      => (~Settles /\ dl'.phase \in {"timer", "req"} /\ dl'.item = dl.item) ]_vars

\* C16: no GET is issued for an attempt beyond --retries; the retry timer
\* armed after attempt k waits k * 1000 ms; and a fetch of main whose last
\* attempt ends in a 5xx or a network error ends as a failure that main
\* counts as failed.
C16_BoundedRetries ==
  [][ /\ (lastReq'.method = "GET" => lastReq'.attempt <= cfg.retries)
      /\ (ChainSteps /\ dl'.phase = "timer") => dl'.wait = dl'.attempt * BackoffMs
      /\ (/\ ChainSteps /\ dl'.phase = "idle" /\ faults' = faults + 1
          /\ (dl.phase = "body" \/ lastGet'.status = 0 \/ lastGet'.status >= 500))
         => (Settles /\ ~last'.success /\ tot'.failed = tot.failed + 1) ]_vars

\* C17: checkFileChanged resolves false (the item is skipped) only when the
\* answer is a 200 that carries a Content-Length equal to the local size, and
\* true in every other case, for a local file of any size.
C17_ConservativeRefetch ==
  [][ HeadSettles => ((Cur \in skippedItems' /\ pc' # "Get") <=> SameLength) ]_vars

\* C18: for a fixed edition the filename of a coordinate (chapter, heading) is
\* the filename of no other coordinate, and it is the last path segment of
\* the URL buildUrl makes for the same coordinate.
C18_NamingInjective ==
  (aux.op = "out" /\ aux.filename # <<>>) =>
    /\ \A c \in 1..MaxNameChapter, h \in 1..MaxNameHeading :
         Filename(aux.edition, <<c, h>>) = aux.filename
           => <<c, h>> = <<aux.chapter, aux.heading>>
    /\ LET segments == Split(aux.url, Slash)
       IN segments[Len(segments)] = aux.filename
\* chapter 11, heading 01 has been resolved: without padding its name would
\* be the name of chapter 1, heading 11
C18_Witness ==
  /\ aux.op = "out"
  /\ aux.chapter = 11 /\ aux.heading = 1
  /\ aux.filename = <<49, 49, 48, 49, 95>> \o aux.edition \o Str_e_pdf
  /\ aux.url # <<>>

\* C19: the filename of a coordinate is the two digits of the chapter, the
\* two digits of the heading, '_', the edition and 'e.pdf' (edition 2022,
\* chapter 1, heading "01": "0101_2022e.pdf"); the filename of a named
\* document is its template with the edition in the place of every
\* {EDITION} and every other character kept.
C19_FilenameFormat ==
  aux.op = "out" =>
    /\ aux.filename # <<>> =>
         /\ aux.filename =
              << 48 + (aux.chapter \div 10), 48 + (aux.chapter % 10),
                 48 + (aux.heading \div 10), 48 + (aux.heading % 10), 95 >>
              \o aux.edition \o <<101, 46, 112, 100, 102>>
         /\ (aux.edition = <<50, 48, 50, 50>> /\ aux.chapter = 1 /\ aux.heading = 1)
              => aux.filename = <<48, 49, 48, 49, 95, 50, 48, 50, 50, 101, 46, 112, 100, 102>>
    /\ aux.named # <<>> =>
         LET t == aux.template
             e == aux.edition
             Before(k) == Cardinality({j \in 1..(k - 1) : t[j] = EditionPlaceholder})
             At(k) == k + Before(k) * (Len(e) - 1)
         IN /\ Len(aux.named) = Len(t) + Before(Len(t) + 1) * (Len(e) - 1)
            /\ \A k \in 1..Len(t) :
                 IF t[k] = EditionPlaceholder
                 THEN SubSeq(aux.named, At(k), At(k) + Len(e) - 1) = e
                 ELSE aux.named[At(k)] = t[k]
\* both names have been resolved, for the coordinate of the example and for
\* a template that holds {EDITION} twice
C19_Witness ==
  /\ aux.op = "out"
  /\ aux.edition = DEFAULT_EDITION /\ aux.chapter = 1 /\ aux.heading = 1
  /\ aux.filename # <<>>
  /\ Cardinality({j \in 1..Len(aux.template) : aux.template[j] = EditionPlaceholder}) = 2
  /\ aux.named = <<50, 48, 50, 50, 95, 50, 48, 50, 50, 101, 46, 112, 100, 102>>

\* C20: in a dry run no request is ever issued (no warm-up, no HEAD, no GET,
\* none left in flight), the output directory is not made and every file of
\* the directory is as it was when the run started.
C20_DryRunTouchesNothing ==
  cfg.dryRun =>
    /\ inflight = 0 /\ lastReq = NoReq /\ net.cur = "none"
    /\ hd = 0 /\ dl = IdleChain /\ strays = {}
    /\ ~outputDirMade
    /\ fs = dir0
\* a dry run over a directory that holds files, with checkExisting on, has
\* walked every item to its end
C20_Witness ==
  /\ cfg.dryRun /\ cfg.checkExisting /\ cfg.resume
  /\ dir0 = StubDir
  /\ pc = "Completed"
  /\ tot.attempted = Len(Walk)
  /\ report.printed

\* C21: checkExisting and skipExisting are never both set and the mode is that
\* of the last existing-file flag of the command line (check-existing when
\* there is none).  In a run that is not a dry run: under --skip-existing no
\* HEAD is issued at all and no request is issued for a file the run found
\* in the directory, such a file is only ever skipped; under --force no HEAD
\* is issued, nothing is skipped and every item main came to has a GET issued
\* for it (it is downloaded, failed, or being fetched); under
\* --check-existing, when main fetches a file the run found in the
\* directory, the network step before that GET was the HEAD of the item.
C21_ExistingFileModes ==
  LET args == cfg.existingArgs
      lastFlag == IF args = <<>> THEN "--check-existing" ELSE args[Len(args)]
      force == ~cfg.checkExisting /\ ~cfg.skipExisting
      noHead == lastReq.method # "HEAD" /\ pc # "Head" /\ hd = 0 /\ lastHead = NoHead
  IN /\ ~(cfg.checkExisting /\ cfg.skipExisting)
     /\ cfg.checkExisting <=> lastFlag = "--check-existing"
     /\ cfg.skipExisting <=> lastFlag = "--skip-existing"
     /\ force <=> lastFlag \in {"--force", "--no-check-existing"}
     /\ (cfg.skipExisting /\ ~cfg.dryRun) =>
          /\ noHead
          /\ lastReq.item # NoItem => ~dir0[lastReq.item].exists
          /\ \A k \in 1..(pos - 1) :
               (dir0[Walk[k]].exists /\ ~ResumeSkips(Walk[k])) => Walk[k] \in skippedItems
          /\ \A i \in skippedItems : fs[i] = dir0[i] /\ dir0[i].exists
     /\ (force /\ ~cfg.dryRun) =>
          /\ noHead
          /\ skippedItems = {} /\ tot.skipped = 0
          /\ pc = "Get" => (tot.attempted = tot.downloaded + tot.failed + 1
                            /\ dl.item = Cur)
          /\ pc \in {"Item", "Resume", "Finalizing", "Completed"}
               => tot.attempted = tot.downloaded + tot.failed
     /\ (cfg.checkExisting /\ ~cfg.dryRun /\ pc = "Get" /\ dir0[dl.item].exists)
          => (net.prev = "HEAD" /\ net.cur = "GET" /\ dl.item = Cur)
\* the last of three flags is --skip-existing: an existing grid file has
\* been skipped and a missing one is being fetched
C21_Witness ==
  /\ Len(cfg.existingArgs) = 3 /\ cfg.skipExisting /\ ~cfg.dryRun
  /\ \E i \in skippedItems : IsGrid(i) /\ dir0[i].exists
  /\ pc = "Get" /\ IsGrid(dl.item) /\ ~dir0[dl.item].exists
  /\ lastReq.method = "GET"

\* C22: in a run of the browser-based script every chapter/heading PDF that
\* is requested or written is of a chapter of --chapters.
C22_OnlyChaptersOfRange ==
  br.pc \in {"Loop", "Done", "Aborted"} =>
    LET R == {chapterRanges(br.chapters)[k] : k \in 1..Len(chapterRanges(br.chapters))}
    IN \A l \in GridItems :
         (l \in br.requested \/ br.files[l] # NoFile) => l[1] \in R

\* downloadFile(url, outputPath, referer, 1): the file and the DownloadResult
\* when the origin answers the GET with r (or the request ends in 'error'),
\* the target of a followed redirect answering with the PDF; exit tells
\* whether main then calls process.exit(1)
downloadFileOnce(item, r, f) ==
  LET o1 == attemptDownload(NewChain(item), f, FALSE)
      o2 == IF r = NetworkError THEN onError(o1.c, o1.f, 1)
            ELSE onResponse(o1.c, o1.f, r, 1)
      o3 == IF o2.c.phase = "body" THEN onFinish(o2.c)
            ELSE IF o2.issued
            THEN onFinish(onResponse(o2.c, o2.f, NominalGet, 1).c)
            ELSE o2
  IN [success |-> o3.res.success, status |-> o3.res.status, file |-> o3.f,
      exit |-> ~o3.res.success /\ o3.res.status = 404]

\* C23: when the browser-based script has fetched a link, the outcome is the
\* one the HTTP script has for the same answer of the origin: the same
\* success or failure, the same effect on the run (it goes on, or it ends
\* with process.exit(1)) and the same file at the local path.
C23_SameFetcherContract ==
  br.last.item # NoItem =>
    LET h == downloadFileOnce(br.last.item, br.last.resp, br.last.before)
    IN /\ h.success = br.last.success
       /\ h.exit = (br.pc = "Aborted")
       /\ h.file = br.files[br.last.item]

\* C24: main comes to every additional document before the first grid item,
\* and to the grid items in ascending (chapter, heading) order: the item main
\* is at is an additional document only if every item before it is one, and
\* a grid item main is at comes after the grid item main was at before.
C24_AscendingOrder ==
  (pc \in {"Item", "Head", "Get"} /\ pos > 1 /\ pos <= Len(Walk)) =>
    /\ IsAdditional(Cur) => \A k \in 1..(pos - 1) : IsAdditional(Walk[k])
    /\ (IsGrid(Cur) /\ IsGrid(Walk[pos - 1]))
         => (PairLeq(Walk[pos - 1], Cur) /\ Walk[pos - 1] # Cur)

\* C25: downloadFile gives up for too many redirects only when the chain has
\* more than MaxRedirects hops: when main receives the failure that follows a
\* redirect with a Location, the request that was answered last was issued
\* after MaxRedirects hops or more.
C25_FiveHopsFollowed ==
  (/\ last.item # NoItem /\ ~last.success /\ last.status = 0
   /\ IsRedirect(lastGet.status) /\ lastGet.location = "ok"
   /\ lastReq.method = "GET" /\ lastReq.by = "main" /\ lastReq.item = last.item)
    => lastReq.redirect >= MaxRedirects

\* C26: a redirect is classified as absent (404) only when its Location names
\* an error page: a Location that is the URL of a document of the grid is
\* followed, whatever digits its file name holds.
C26_DocumentLocationFollowed ==
  (aux.op = "redirected" /\ aux.document) =>
    (aux.issued /\ ~aux.res.settled)

\* cookies of a sequence, as a set
CookiesOf(q) == { q[k] : k \in 1..Len(q) }

\* C27: a response never removes a cookie of the jar unless it sets a cookie
\* of the same name: every cookie the jar held before the last response is
\* still in the jar, or the response set a cookie of that name.
C27_CookiesKept ==
  (aux.op = "cookies" /\ aux.kind # "none") =>
    \A c \in CookiesOf(aux.before) :
      \/ c \in CookiesOf(aux.jar)
      \/ \E d \in CookiesOf(aux.set) : d.name = c.name

\* C28: every response observed (warm-up, GET, HEAD) puts its Set-Cookie
\* values in the jar, and every request after the warm-up sent the jar as it
\* stood when the request was made.
C28_EveryResponseHarvested ==
  (aux.op = "cookies" /\ aux.kind # "none") =>
    /\ CookiesOf(aux.set) \subseteq CookiesOf(aux.jar)
    /\ aux.kind \in {"head", "get"} => aux.sent = aux.before

\* C29: in a run that is not a dry run, no HEAD or GET for a document is
\* issued before the warm-up request is over; however the warm-up ends, main
\* goes on with refererUrl being the landing page URL of the edition; the
\* process exits with an error only after a GET for a document was issued.
C29_WarmUpFirst ==
  ~cfg.dryRun =>
    /\ pc \in {"Idle", "WarmingUp"} =>
         /\ lastReq.method \in {"none", "WARMUP"}
         /\ dl = IdleChain /\ strays = {} /\ hd = 0
         /\ lastHead = NoHead /\ lastGet = NoGet
         /\ tot.attempted = 0 /\ fs = dir0
         /\ exitCode = NoExit
         /\ inflight = (IF pc = "WarmingUp" THEN 1 ELSE 0)
    /\ lastReq.method \in {"HEAD", "GET"} => pc \notin {"Idle", "WarmingUp"}
    /\ pc \notin {"Idle", "WarmingUp"} =>
         refererUrl = mainPageUrl(cfg.edition)
    /\ exitCode \notin {NoExit, 0} => lastGet # NoGet \/ last.item # NoItem

C29_Witness ==
  /\ ~cfg.dryRun
  /\ pc = "Get" /\ pos = 1 /\ tot.attempted = 1
  /\ lastReq.method = "GET" /\ lastReq.item = Walk[1]
  /\ net.prev = "WARMUP"
  /\ refererUrl = mainPageUrl(DEFAULT_EDITION)

\* C30: every downloadFile call main awaits is eventually settled, whatever
\* the origin does: main does not stay at the await of a download for ever.
C30_EveryFetchReturns == (pc = "Get") ~> (pc # "Get")

\* C31: the request issued last by a downloadFile call carries as Referer the
\* landing page URL as long as no redirect was followed, and otherwise the
\* URL of the request whose redirect was followed last, whether the request
\* is a first attempt or a retry.
C31_RefererChain ==
  aux.op = "referer" =>
    /\ aux.sent.referer =
         (IF aux.issuer = <<>> THEN aux.mainReferer ELSE aux.issuer)
    /\ aux.c.phase # "idle" => (aux.c.redirectCount = 0 <=> aux.issuer = <<>>)

C31_Witness ==
  /\ aux.op = "referer"
  /\ aux.c.phase = "req" /\ aux.c.attempt = 2 /\ aux.c.redirectCount = 2
  /\ aux.sent.url = buildUrl(DEFAULT_EDITION, 3, PadStart2(1))
  /\ aux.sent.referer = buildUrl(DEFAULT_EDITION, 2, PadStart2(1))
  /\ aux.sent.referer # aux.mainReferer

\* C32: in the browser-based script, once the landing page shows a blocking
\* indicator (a block message or a CAPTCHA), no PDF is requested.
C32_BlockingAborts ==
  (br.pc # "none" /\ br.pc # "Start" /\ br.warned) => br.requested = {}

\* C33: when the fetch of a document that had a valid PDF on disk at the
\* start of the run ends in failure, that file is still on disk, unchanged.
C33_FailedFetchKeepsFile ==
  (/\ pc \in {"Item", "Resume", "Finalizing", "Aborted"}
   /\ last.item # NoItem /\ ~last.success
   /\ strays = {}
   /\ dir0[last.item] = FileOf(PdfBody))
    => fs[last.item] = dir0[last.item]

\* C34: a document whose local file is empty (0 bytes) is never skipped as
\* already there or unchanged: no run counts it as skipped.
C34_EmptyFileRefetched ==
  ~cfg.dryRun => \A i \in skippedItems : dir0[i] # EmptyFile

\* C35: whenever main is between two items, or past the last one, each item
\* it went through without a resume skip was counted once in totalAttempted
\* and once in exactly one of totalDownloaded, totalFailed and totalSkipped;
\* while main awaits the HEAD or the download of an item, that item is
\* counted as attempted only.
C35_CountersBalance ==
  LET w == Walk
      done == tot.downloaded + tot.failed + tot.skipped
      processed == Cardinality({k \in 1..(pos - 1) : ~ResumeSkips(w[k])})
  IN /\ pc \in {"Item", "Resume", "Finalizing", "Completed"}
          => (tot.attempted = done /\ tot.attempted = processed)
     /\ pc \in {"Head", "Get"}
          => (tot.attempted = done + 1 /\ tot.attempted = processed + 1)
     /\ pc \in {"Idle", "WarmingUp"} => (tot.attempted = 0 /\ done = 0)

C35_Witness ==
  /\ pc = "Finalizing" /\ ~cfg.dryRun
  /\ tot.downloaded > 0 /\ tot.failed > 0 /\ tot.skipped > 0
  /\ tot.attempted = Len(Walk)

\* C36: one downloadFile call issues at most retries + maxRedirects GET
\* requests, whatever the origin does.
C36_RequestBudget ==
  aux.op = "call" => aux.n <= aux.retries + MaxRedirects

\* C37: both scripts read the same --chapters value to the same chapter
\* list, for single elements, comma lists and mixed forms such as "1-3,5"
C37_SameChapterSyntax ==
  (aux.op = "option" /\ aux.fn = "chapters" /\ aux.done) => aux.http = aux.browser

\* C38: the politeness delay drawn from base b and variation v is a d with
\* b <= d < b + v, for the HTTP script's getRandomDelay and for the one of
\* shared-utils with its default arguments
C38_DelayWithinBounds ==
  (aux.op = "option" /\ aux.fn = "delay" /\ aux.done) =>
    /\ aux.baseDelay <= aux.d
    /\ aux.d < aux.baseDelay + aux.variation
    /\ aux.d >= 0

====
